---- MODULE Spec2Model ----
(***************************************************************************)
(* A model of the NBT tag decoder of package nbt (PudFish/nbt).            *)
(*                                                                         *)
(* The readers of the package are pure functions of the byte source and    *)
(* the byte order; each is an operator here, computed as the Go code       *)
(* computes it, and each has an action that applies it to the stream of    *)
(* the current state.  A reader operator takes the stream as a record      *)
(*     [bytes, broken, pos, log, mem]                                      *)
(* and returns [buffer, val, err, panic]: the stream after the call, the   *)
(* returned value, the returned error (a chain of frames, outermost        *)
(* first, empty for nil) and whether the call ended in a run-time panic.   *)
(***************************************************************************)
EXTENDS Integers, Sequences, FiniteSets, TLC

VARIABLES buffer, last

vars == <<buffer, last>>

---------------------------------------------------------------------------
(* Tag ids *)

tagEnd == 0
tagByte == 1
tagShort == 2
tagInt == 3
tagLong == 4
tagFloat == 5
tagDouble == 6
tagByteArray == 7
tagString == 8
tagList == 9
tagCompound == 10
tagIntArray == 11
tagLongArray == 12

\* every value a uint8 can hold
Uint8 == 0..255

\* the two implementations of binary.ByteOrder the callers pass
Orders == {"BigEndian", "LittleEndian"}

---------------------------------------------------------------------------
(* Values: tag, payload, error *)

\* payload any: a record [k, v]; k names the dynamic type, v is the value.
\* A nil interface is NilPayload.  A slice is a sequence (a nil slice and
\* an empty slice are both << >>: the code never builds an empty non-nil
\* slice).  int64, float32 and float64 are kept as their bytes, most
\* significant first (two's complement / IEEE-754 bit pattern).
NilPayload == [k |-> "nil", v |-> 0]

Payload(k, v) == [k |-> k, v |-> v]

\* tag{id, name, payload}; a string is its sequence of bytes
Tag(id, name, payload) == [id |-> id, name |-> name, payload |-> payload]

\* tag{}: the zero value
ZeroTag == Tag(0, << >>, NilPayload)

\* error: nil is << >>; fmt.Errorf("msg: %w", err) puts a frame before the
\* chain it wraps; arg is the value formatted into the message (%v)
NilErr == << >>

Frame(msg, arg) == [msg |-> msg, arg |-> arg]

\* fmt.Errorf without %w: a new error with no cause under it
Errorf(msg, arg) == << Frame(msg, arg) >>

\* fmt.Errorf("...: %w", err)
Wrap(msg, arg, err) == << Frame(msg, arg) >> \o err

\* the errors of package io and of a faulty source
EOF == Errorf("EOF", 0)
ErrUnexpectedEOF == Errorf("unexpected EOF", 0)
ErrSource == Errorf("mock broken io.reader", 0)

\* the innermost error of a chain (what errors.Is finds at the bottom)
Cause(err) == IF err = NilErr THEN "" ELSE err[Len(err)].msg

\* what a reader returns
Ret(buf, val, err) == [buffer |-> buf, val |-> val, err |-> err, panic |-> FALSE]

\* a run-time panic: the call does not return
Panic(buf) == [buffer |-> buf, val |-> 0, err |-> NilErr, panic |-> TRUE]

---------------------------------------------------------------------------
(* The byte source and encoding/binary *)

\* bytes s[from+1 .. from+n]
Slice(s, from, n) == [i \in 1..n |-> s[from + i]]

Min(a, b) == IF a < b THEN a ELSE b

\* binary.Read(buffer, order, data) for data of width n bytes, called by
\* the reader `by`: io.ReadFull of n bytes.  n = 0 reads nothing and
\* succeeds.  The bytes that are left are consumed, up to n; when fewer
\* than n are left, a faulty source returns its error, and a source that
\* has ended io.EOF when no byte was left and io.ErrUnexpectedEOF when some
\* were.  Every call is appended to the log.
binaryRead(buf, n, by) ==
  LET left == Len(buf.bytes) - buf.pos
      got  == Min(n, left)
      nbuf == [buf EXCEPT !.pos = buf.pos + got,
                          !.log = Append(buf.log,
                                    [by |-> by, at |-> buf.pos, want |-> n, got |-> got])]
      err  == IF n = 0 \/ left >= n THEN NilErr
              ELSE IF buf.broken THEN ErrSource
              ELSE IF left = 0 THEN EOF
              ELSE ErrUnexpectedEOF
  IN [buffer |-> nbuf, data |-> Slice(buf.bytes, buf.pos, got), err |-> err]

\* the bytes taken as they come, whatever the order
MSBFirst_bigEndian(order, b) == b

\* the bytes of a fixed-width value, most significant first
MSBFirst(order, b) ==
  IF order = "BigEndian" THEN b ELSE [i \in 1..Len(b) |-> b[Len(b) + 1 - i]]

RECURSIVE Unsigned(_)
\* the unsigned value of bytes given most significant first
Unsigned(b) ==
  IF Len(b) = 0 THEN 0 ELSE Unsigned(SubSeq(b, 1, Len(b) - 1)) * 256 + b[Len(b)]

\* order.Uint16 / the uint8 itself
Uint(order, b) == Unsigned(MSBFirst(order, b))

\* the two's complement value of 2 or 4 bytes (int16, int32)
Signed(order, b) ==
  LET m   == MSBFirst(order, b)
      top == IF m[1] >= 128 THEN m[1] - 256 ELSE m[1]
      RECURSIVE Shift(_, _)
      Shift(acc, i) == IF i > Len(m) THEN acc ELSE Shift(acc * 256 + m[i], i + 1)
  IN Shift(top, 2)

---------------------------------------------------------------------------
(* unicode/utf8 *)

\* the continuation-byte range utf8.ValidString accepts after lead byte c,
\* << >> for a byte that cannot start a sequence (0x80-0xC1, 0xF5-0xFF)
AcceptRange(c) ==
  IF c = 224 THEN <<160, 191>>
  ELSE IF c = 237 THEN <<128, 159>>
  ELSE IF c = 240 THEN <<144, 191>>
  ELSE IF c = 244 THEN <<128, 143>>
  ELSE IF c >= 194 /\ c <= 243 THEN <<128, 191>>
  ELSE << >>

\* the length of the sequence lead byte c starts
SeqSize(c) == IF c < 224 THEN 2 ELSE IF c < 240 THEN 3 ELSE 4

RECURSIVE validFrom(_, _)
\* the loop of utf8.ValidString from 0-based index i
validFrom(s, i) ==
  IF i >= Len(s) THEN TRUE
  ELSE LET c == s[i + 1] IN
       IF c < 128 THEN validFrom(s, i + 1)
       ELSE LET acc  == AcceptRange(c)
                size == SeqSize(c)
            IN /\ acc # << >>
               /\ i + size <= Len(s)
               /\ s[i + 2] >= acc[1] /\ s[i + 2] <= acc[2]
               /\ \A j \in 3..size : s[i + j] >= 128 /\ s[i + j] <= 191
               /\ validFrom(s, i + size)

\* the fast path of utf8.ValidString: the bytes that lie in whole groups of
\* 8 ASCII bytes at the start of s are skipped
AsciiSkipped(s) ==
  LET high  == { i \in 1..Len(s) : s[i] >= 128 }
      first == IF high = {} THEN Len(s) + 1 ELSE CHOOSE i \in high : \A j \in high : i <= j
  IN 8 * ((first - 1) \div 8)

\* utf8.ValidString(s)
ValidString(s) == validFrom(s, AsciiSkipped(s))

---------------------------------------------------------------------------
(* The readers *)

RECURSIVE ReadTag(_, _)
RECURSIVE readTagPayload(_, _, _)
RECURSIVE listLoop(_, _, _, _, _, _)
RECURSIVE compoundLoop(_, _, _, _, _)
RECURSIVE arrayLoop(_, _, _, _, _, _)

\* readTagID with the bound one too low: tagLongArray itself is rejected
readTagID_offByOne(buf, order) ==
  LET r  == binaryRead(buf, 1, "readTagID")
      id == Uint(order, r.data)
  IN IF r.err # NilErr
       THEN Ret(r.buffer, 0, Wrap("Unable to read tag ID", 0, r.err))
     ELSE IF id >= tagLongArray
       THEN Ret(r.buffer, 0, Errorf("ID not between 0 (tagEnd) and 12 (tagLongArray)", id))
     ELSE Ret(r.buffer, id, NilErr)

\* readTagID without the range check: an id above tagLongArray is left to
\* the default case of readTagPayload
readTagID_unchecked(buf, order) ==
  LET r  == binaryRead(buf, 1, "readTagID")
      id == Uint(order, r.data)
  IN IF r.err # NilErr
       THEN Ret(r.buffer, 0, Wrap("Unable to read tag ID", 0, r.err))
     ELSE Ret(r.buffer, id, NilErr)

\* readTagID: one byte, rejected above tagLongArray
readTagID(buf, order) ==
  LET r  == binaryRead(buf, 1, "readTagID")
      id == Uint(order, r.data)
  IN IF r.err # NilErr
       THEN Ret(r.buffer, 0, Wrap("Unable to read tag ID", 0, r.err))
     ELSE IF id > tagLongArray
       THEN Ret(r.buffer, 0, Errorf("ID not between 0 (tagEnd) and 12 (tagLongArray)", id))
     ELSE Ret(r.buffer, id, NilErr)

\* readTagName: an int16 length, make([]byte, length), then the bytes,
\* which must be valid UTF-8.  make panics on a negative length.
readTagName(buf, order) ==
  LET r1     == binaryRead(buf, 2, "readTagName length")
      length == Signed(order, r1.data)
      r2     == binaryRead(r1.buffer, length, "readTagName")
  IN IF r1.err # NilErr
       THEN Ret(r1.buffer, << >>, Wrap("Unable to read tag name length for", 0, r1.err))
     ELSE IF length < 0
       THEN Panic(r1.buffer)
     ELSE IF r2.err # NilErr
       THEN Ret(r2.buffer, << >>, Wrap("Unable to read tag name", 0, r2.err))
     ELSE IF ~ValidString(r2.data)
       THEN Ret(r2.buffer, << >>, Errorf("Unable to read tag name: contains non UTF-8 charters", 0))
     ELSE Ret(r2.buffer, r2.data, NilErr)

Zeros(n) == [i \in 1..n |-> 0]

\* the six scalar readers: binary.Read into a value of the payload's type;
\* on error the zero value and the wrapped error
readTagBytePayload(buf, order) ==
  LET r == binaryRead(buf, 1, "readTagBytePayload")
  IN IF r.err # NilErr
       THEN Ret(r.buffer, Payload("byte", 0), Wrap("Unable to read tagByte payload", 0, r.err))
     ELSE Ret(r.buffer, Payload("byte", Uint(order, r.data)), NilErr)

\* readTagShortPayload with the error of binary.Read formatted into the
\* message (%v) and not wrapped (%w)
readTagShortPayload_flattened(buf, order) ==
  LET r == binaryRead(buf, 2, "readTagShortPayload")
  IN IF r.err # NilErr
       THEN Ret(r.buffer, Payload("int16", 0),
                Errorf("Unable to read tagShort payload", Cause(r.err)))
     ELSE Ret(r.buffer, Payload("int16", Signed(order, r.data)), NilErr)

readTagShortPayload(buf, order) ==
  LET r == binaryRead(buf, 2, "readTagShortPayload")
  IN IF r.err # NilErr
       THEN Ret(r.buffer, Payload("int16", 0), Wrap("Unable to read tagShort payload", 0, r.err))
     ELSE Ret(r.buffer, Payload("int16", Signed(order, r.data)), NilErr)

readTagIntPayload(buf, order) ==
  LET r == binaryRead(buf, 4, "readTagIntPayload")
  IN IF r.err # NilErr
       THEN Ret(r.buffer, Payload("int32", 0), Wrap("Unable to read tagInt payload", 0, r.err))
     ELSE Ret(r.buffer, Payload("int32", Signed(order, r.data)), NilErr)

readTagLongPayload(buf, order) ==
  LET r == binaryRead(buf, 8, "readTagLongPayload")
  IN IF r.err # NilErr
       THEN Ret(r.buffer, Payload("int64", Zeros(8)), Wrap("Unable to read tagLong payload", 0, r.err))
     ELSE Ret(r.buffer, Payload("int64", MSBFirst(order, r.data)), NilErr)

\* the bits b of a binary32, most significant byte first, are a NaN: the
\* exponent is all ones and the fraction is not zero
IsNaN32(b) ==
  /\ (b[1] % 128) * 2 + b[2] \div 128 = 255
  /\ <<b[2] % 128, b[3], b[4]>> # <<0, 0, 0>>

\* the bits of a binary32 are an infinity of sign bit `sign`
IsInf32(b, sign) == b = <<sign * 128 + 127, 128, 0, 0>>

\* the bits b of a binary64 are a NaN
IsNaN64(b) ==
  /\ (b[1] % 128) * 16 + b[2] \div 16 = 2047
  /\ <<b[2] % 16>> \o SubSeq(b, 3, 8) # Zeros(7)

\* readTagFloatPayload with every NaN turned into the one NaN 0x7FC00000
readTagFloatPayload_canonical(buf, order) ==
  LET r == binaryRead(buf, 4, "readTagFloatPayload")
  IN IF r.err # NilErr
       THEN Ret(r.buffer, Payload("float32", Zeros(4)), Wrap("Unable to read tagFloat payload", 0, r.err))
     ELSE IF IsNaN32(MSBFirst(order, r.data))
       THEN Ret(r.buffer, Payload("float32", <<127, 192, 0, 0>>), NilErr)
     ELSE Ret(r.buffer, Payload("float32", MSBFirst(order, r.data)), NilErr)

readTagFloatPayload(buf, order) ==
  LET r == binaryRead(buf, 4, "readTagFloatPayload")
  IN IF r.err # NilErr
       THEN Ret(r.buffer, Payload("float32", Zeros(4)), Wrap("Unable to read tagFloat payload", 0, r.err))
     ELSE Ret(r.buffer, Payload("float32", MSBFirst(order, r.data)), NilErr)

readTagDoublePayload(buf, order) ==
  LET r == binaryRead(buf, 8, "readTagDoublePayload")
  IN IF r.err # NilErr
       THEN Ret(r.buffer, Payload("float64", Zeros(8)), Wrap("Unable to read tagDouble payload", 0, r.err))
     ELSE Ret(r.buffer, Payload("float64", MSBFirst(order, r.data)), NilErr)

\* what tells the three array readers apart: the reader's name, the slice
\* type, the element width and the messages
ByteArrayKind ==
  [by |-> "readTagByteArrayPayload", sizeBy |-> "readTagByteArrayPayload size", type |-> "[]byte", width |-> 1,
   sizeMsg |-> "Unable to read tagByteArray payload size",
   negMsg  |-> "Unable to read tagByteArray payload size: size is negative",
   elemMsg |-> "Unable to read tagByteArray payload element"]

IntArrayKind ==
  [by |-> "readTagIntArrayPayload", sizeBy |-> "readTagIntArrayPayload size", type |-> "[]int32", width |-> 4,
   sizeMsg |-> "Unable to read tagIntArray payload size",
   negMsg  |-> "Unable to read tagIntArray payload size: size is negative",
   elemMsg |-> "Unable to read tagIntArray payload element"]

LongArrayKind ==
  [by |-> "readTagLongArrayPayload", sizeBy |-> "readTagLongArrayPayload size", type |-> "[]int64", width |-> 8,
   sizeMsg |-> "Unable to read tagLongArray payload size",
   negMsg  |-> "Unable to read tagLongArray payload size: size is negative",
   elemMsg |-> "Unable to read tagLongArray payload element"]

\* the elements decoded most significant byte first whatever the order
Element_bigEndian(kind, order, d) ==
  IF kind.width = 1 THEN Uint("BigEndian", d)
  ELSE IF kind.width = 4 THEN Signed("BigEndian", d)
  ELSE MSBFirst("BigEndian", d)

\* one element as the array's element type holds it
Element(kind, order, d) ==
  IF kind.width = 1 THEN Uint(order, d)
  ELSE IF kind.width = 4 THEN Signed(order, d)
  ELSE MSBFirst(order, d)

\* the array loop returning what it has appended when an element fails
arrayLoop_partial(buf, order, kind, size, i, payload) ==
  IF i >= size THEN Ret(buf, Payload(kind.type, payload), NilErr)
  ELSE LET r == binaryRead(buf, kind.width, kind.by)
       IN IF r.err # NilErr
            THEN Ret(r.buffer, Payload(kind.type, payload), Wrap(kind.elemMsg, i, r.err))
          ELSE arrayLoop(r.buffer, order, kind, size, i + 1,
                         Append(payload, Element(kind, order, r.data)))

\* for i := 0; i < int(size); i++ { binary.Read(&p); payload = append(payload, p) }
arrayLoop(buf, order, kind, size, i, payload) ==
  IF i >= size THEN Ret(buf, Payload(kind.type, payload), NilErr)
  ELSE LET r == binaryRead(buf, kind.width, kind.by)
       IN IF r.err # NilErr
            THEN Ret(r.buffer, Payload(kind.type, << >>), Wrap(kind.elemMsg, i, r.err))
          ELSE arrayLoop(r.buffer, order, kind, size, i + 1,
                         Append(payload, Element(kind, order, r.data)))

\* the size check left out, as in the list reader
NegativeSize_unchecked(size) == FALSE

\* the size check of the three array readers: if size < 0 { return nil, err }
NegativeSize(size) == size < 0

\* readTagByteArrayPayload, readTagIntArrayPayload, readTagLongArrayPayload:
\* an int32 size, rejected when negative, then size elements one at a time
readArray(buf, order, kind) ==
  LET r    == binaryRead(buf, 4, kind.sizeBy)
      size == Signed(order, r.data)
  IN IF r.err # NilErr
       THEN Ret(r.buffer, Payload(kind.type, << >>), Wrap(kind.sizeMsg, 0, r.err))
     ELSE IF NegativeSize(size)
       THEN Ret(r.buffer, Payload(kind.type, << >>), Errorf(kind.negMsg, size))
     ELSE arrayLoop(r.buffer, order, kind, size, 0, << >>)

readTagByteArrayPayload(buf, order) == readArray(buf, order, ByteArrayKind)

readTagIntArrayPayload(buf, order) == readArray(buf, order, IntArrayKind)

readTagLongArrayPayload(buf, order) == readArray(buf, order, LongArrayKind)

\* readTagStringPayload without the UTF-8 check
readTagStringPayload_unchecked(buf, order) ==
  LET r1     == binaryRead(buf, 2, "readTagStringPayload length")
      length == Uint(order, r1.data)
      r2     == binaryRead(r1.buffer, length, "readTagStringPayload")
  IN IF r1.err # NilErr
       THEN Ret(r1.buffer, Payload("string", << >>),
                Wrap("Unable to read tagString payload length", 0, r1.err))
     ELSE IF r2.err # NilErr
       THEN Ret(r2.buffer, Payload("string", << >>),
                Wrap("Unable to read tagString payload", 0, r2.err))
     ELSE Ret(r2.buffer, Payload("string", r2.data), NilErr)

\* readTagStringPayload with the length read as the name's is: an int16,
\* and make([]byte, length) panics when it is negative
readTagStringPayload_signed(buf, order) ==
  LET r1     == binaryRead(buf, 2, "readTagStringPayload length")
      length == Signed(order, r1.data)
      r2     == binaryRead(r1.buffer, length, "readTagStringPayload")
  IN IF r1.err # NilErr
       THEN Ret(r1.buffer, Payload("string", << >>),
                Wrap("Unable to read tagString payload length", 0, r1.err))
     ELSE IF length < 0
       THEN Panic(r1.buffer)
     ELSE IF r2.err # NilErr
       THEN Ret(r2.buffer, Payload("string", << >>),
                Wrap("Unable to read tagString payload", 0, r2.err))
     ELSE IF ~ValidString(r2.data)
       THEN Ret(r2.buffer, Payload("string", << >>),
                Errorf("Unable to read tagString payload: contains non UTF-8 charters", 0))
     ELSE Ret(r2.buffer, Payload("string", r2.data), NilErr)

\* readTagStringPayload with the bytes that came tested for UTF-8 before
\* the error of the read is looked at
readTagStringPayload_validatedFirst(buf, order) ==
  LET r1     == binaryRead(buf, 2, "readTagStringPayload length")
      length == Uint(order, r1.data)
      r2     == binaryRead(r1.buffer, length, "readTagStringPayload")
  IN IF r1.err # NilErr
       THEN Ret(r1.buffer, Payload("string", << >>),
                Wrap("Unable to read tagString payload length", 0, r1.err))
     ELSE IF ~ValidString(r2.data)
       THEN Ret(r2.buffer, Payload("string", << >>),
                Errorf("Unable to read tagString payload: contains non UTF-8 charters", 0))
     ELSE IF r2.err # NilErr
       THEN Ret(r2.buffer, Payload("string", << >>),
                Wrap("Unable to read tagString payload", 0, r2.err))
     ELSE Ret(r2.buffer, Payload("string", r2.data), NilErr)

\* readTagStringPayload: a uint16 length, then the bytes, which must be
\* valid UTF-8
readTagStringPayload(buf, order) ==
  LET r1     == binaryRead(buf, 2, "readTagStringPayload length")
      length == Uint(order, r1.data)
      r2     == binaryRead(r1.buffer, length, "readTagStringPayload")
  IN IF r1.err # NilErr
       THEN Ret(r1.buffer, Payload("string", << >>),
                Wrap("Unable to read tagString payload length", 0, r1.err))
     ELSE IF r2.err # NilErr
       THEN Ret(r2.buffer, Payload("string", << >>),
                Wrap("Unable to read tagString payload", 0, r2.err))
     ELSE IF ~ValidString(r2.data)
       THEN Ret(r2.buffer, Payload("string", << >>),
                Errorf("Unable to read tagString payload: contains non UTF-8 charters", 0))
     ELSE Ret(r2.buffer, Payload("string", r2.data), NilErr)

\* the body of the list loop with the elements counted from 1 in the error
listBody_fromOne(r, order, tagID, length, i, payload) ==
  IF r.panic THEN Panic(r.buffer)
  ELSE IF r.err # NilErr
    THEN Ret(r.buffer, Payload("[]any", << >>),
             Wrap("Unable to read tagList payload element", i + 1, r.err))
  ELSE listLoop(r.buffer, order, tagID, length, i + 1, Append(payload, r.val))

\* the body of the list loop once readTagPayload returned r:
\* if err != nil { return nil, err }; payload = append(payload, p)
listBody(r, order, tagID, length, i, payload) ==
  IF r.panic THEN Panic(r.buffer)
  ELSE IF r.err # NilErr
    THEN Ret(r.buffer, Payload("[]any", << >>),
             Wrap("Unable to read tagList payload element", i, r.err))
  ELSE listLoop(r.buffer, order, tagID, length, i + 1, Append(payload, r.val))

\* the list loop with every element taken for a tag of its own: an id byte
\* is read before the payload
listLoop_tagged(buf, order, tagID, length, i, payload) ==
  IF i >= length THEN Ret(buf, Payload("[]any", payload), NilErr)
  ELSE listBody(readTagPayload(readTagID(buf, order).buffer, order, tagID),
                order, tagID, length, i, payload)

\* for i := 0; i < int(length); i++ { p, err := readTagPayload(tagID); ... }
listLoop(buf, order, tagID, length, i, payload) ==
  IF i >= length THEN Ret(buf, Payload("[]any", payload), NilErr)
  ELSE listBody(readTagPayload(buf, order, tagID), order, tagID, length, i, payload)

\* the greatest int32
MaxInt32 == 2147483647

\* readTagListPayload with the length taken as unsigned: a negative length
\* is a count beyond any stream
readTagListPayload_unsigned(buf, order) ==
  LET r1     == binaryRead(buf, 1, "readTagListPayload type")
      tagID  == Uint(order, r1.data)
      r2     == binaryRead(r1.buffer, 4, "readTagListPayload length")
      length == IF Signed(order, r2.data) < 0 THEN MaxInt32 ELSE Signed(order, r2.data)
  IN IF r1.err # NilErr
       THEN Ret(r1.buffer, Payload("[]any", << >>), Wrap("Unable to read tagList type", 0, r1.err))
     ELSE IF r2.err # NilErr
       THEN Ret(r2.buffer, Payload("[]any", << >>), Wrap("Unable to read tagList length", 0, r2.err))
     ELSE listLoop(r2.buffer, order, tagID, length, 0, << >>)

\* readTagListPayload with the element type held to the range of
\* readTagPayload before the length is read
readTagListPayload_typeChecked(buf, order) ==
  LET r1     == binaryRead(buf, 1, "readTagListPayload type")
      tagID  == Uint(order, r1.data)
      r2     == binaryRead(r1.buffer, 4, "readTagListPayload length")
      length == Signed(order, r2.data)
  IN IF r1.err # NilErr
       THEN Ret(r1.buffer, Payload("[]any", << >>), Wrap("Unable to read tagList type", 0, r1.err))
     ELSE IF tagID = tagEnd \/ tagID > tagLongArray
       THEN Ret(r1.buffer, Payload("[]any", << >>),
                Errorf("tag ID not between 0 (tagEnd) and 12 (tagLongArray)", tagID))
     ELSE IF r2.err # NilErr
       THEN Ret(r2.buffer, Payload("[]any", << >>), Wrap("Unable to read tagList length", 0, r2.err))
     ELSE listLoop(r2.buffer, order, tagID, length, 0, << >>)

\* readTagListPayload: the element type, an int32 length, then length
\* payloads of that type
readTagListPayload(buf, order) ==
  LET r1     == binaryRead(buf, 1, "readTagListPayload type")
      tagID  == Uint(order, r1.data)
      r2     == binaryRead(r1.buffer, 4, "readTagListPayload length")
      length == Signed(order, r2.data)
  IN IF r1.err # NilErr
       THEN Ret(r1.buffer, Payload("[]any", << >>), Wrap("Unable to read tagList type", 0, r1.err))
     ELSE IF r2.err # NilErr
       THEN Ret(r2.buffer, Payload("[]any", << >>), Wrap("Unable to read tagList length", 0, r2.err))
     ELSE listLoop(r2.buffer, order, tagID, length, 0, << >>)

\* t declared once, before the loop: every iteration assigns the same
\* variable
NewT_shared(buf, prev) ==
  IF prev = 0
    THEN [buffer |-> [buf EXCEPT !.mem = Append(buf.mem, ZeroTag)],
          addr   |-> Len(buf.mem) + 1]
    ELSE [buffer |-> buf, addr |-> prev]

\* t, err := ReadTag(...) in the body of the compound loop declares a new
\* variable t in every iteration; &t is its address.  mem holds the tag
\* variables whose address was taken, addresses being indexes into it.
\* prev is the address of the previous iteration's t (0 in the first).
NewT(buf, prev) ==
  [buffer |-> [buf EXCEPT !.mem = Append(buf.mem, ZeroTag)],
   addr   |-> Len(buf.mem) + 1]

\* the body of the compound loop with the end of the stream taken for the
\* end of the compound
compoundBody_eofEnds(addr, r, order, i, payload) ==
  LET stored == [r.buffer EXCEPT !.mem[addr] = r.val]
  IN IF r.panic THEN Panic(r.buffer)
     ELSE IF r.err # NilErr /\ Cause(r.err) = "EOF"
       THEN Ret(stored, Payload("[]*tag", payload), NilErr)
     ELSE IF r.err # NilErr
       THEN Ret(stored, Payload("[]*tag", << >>),
                Wrap("Unable to read tagCompound payload element", i, r.err))
     ELSE IF r.val.id = tagEnd
       THEN Ret(stored, Payload("[]*tag", payload), NilErr)
     ELSE compoundLoop(stored, order, i + 1, Append(payload, addr), addr)

\* the body of the compound loop with &t appended before t.id is compared
\* with tagEnd: the tagEnd is stored as the last child
compoundBody_endStored(addr, r, order, i, payload) ==
  LET stored == [r.buffer EXCEPT !.mem[addr] = r.val]
  IN IF r.panic THEN Panic(r.buffer)
     ELSE IF r.err # NilErr
       THEN Ret(stored, Payload("[]*tag", << >>),
                Wrap("Unable to read tagCompound payload element", i, r.err))
     ELSE IF r.val.id = tagEnd
       THEN Ret(stored, Payload("[]*tag", Append(payload, addr)), NilErr)
     ELSE compoundLoop(stored, order, i + 1, Append(payload, addr), addr)

\* the body of the compound loop once ReadTag returned r into the t at
\* address addr: if err != nil { return nil, err }; if t.id == tagEnd
\* { break }; payload = append(payload, &t)
compoundBody(addr, r, order, i, payload) ==
  LET stored == [r.buffer EXCEPT !.mem[addr] = r.val]
  IN IF r.panic THEN Panic(r.buffer)
     ELSE IF r.err # NilErr
       THEN Ret(stored, Payload("[]*tag", << >>),
                Wrap("Unable to read tagCompound payload element", i, r.err))
     ELSE IF r.val.id = tagEnd
       THEN Ret(stored, Payload("[]*tag", payload), NilErr)
     ELSE compoundLoop(stored, order, i + 1, Append(payload, addr), addr)

\* for i := 0; ; i++ { t, err := ReadTag(buffer, order); ... }
compoundLoop(buf, order, i, payload, prev) ==
  LET d == NewT(buf, prev)
  IN compoundBody(d.addr, ReadTag(d.buffer, order), order, i, payload)

\* readTagCompoundPayload: tags up to a tagEnd, as pointers to them
readTagCompoundPayload(buf, order) == compoundLoop(buf, order, 0, << >>, 0)

\* readTagPayload with tagEnd taken for a tag of no payload: nil, no error
readTagPayload_endEmpty(buf, order, tagID) ==
  CASE tagID = tagEnd       -> Ret(buf, NilPayload, NilErr)
    [] tagID = tagByte      -> readTagBytePayload(buf, order)
    [] tagID = tagShort     -> readTagShortPayload(buf, order)
    [] tagID = tagInt       -> readTagIntPayload(buf, order)
    [] tagID = tagLong      -> readTagLongPayload(buf, order)
    [] tagID = tagFloat     -> readTagFloatPayload(buf, order)
    [] tagID = tagDouble    -> readTagDoublePayload(buf, order)
    [] tagID = tagByteArray -> readTagByteArrayPayload(buf, order)
    [] tagID = tagString    -> readTagStringPayload(buf, order)
    [] tagID = tagList      -> readTagListPayload(buf, order)
    [] tagID = tagCompound  -> readTagCompoundPayload(buf, order)
    [] tagID = tagIntArray  -> readTagIntArrayPayload(buf, order)
    [] tagID = tagLongArray -> readTagLongArrayPayload(buf, order)
    [] OTHER -> Ret(buf, NilPayload, Errorf("tag ID not between 0 (tagEnd) and 12 (tagLongArray)", tagID))

\* readTagPayload with no error for an id that has no reader: a nil payload
readTagPayload_lenient(buf, order, tagID) ==
  CASE tagID = tagEnd       -> Ret(buf, NilPayload, Errorf("Not expecting to read a tagEnd in the payload", 0))
    [] tagID = tagByte      -> readTagBytePayload(buf, order)
    [] tagID = tagShort     -> readTagShortPayload(buf, order)
    [] tagID = tagInt       -> readTagIntPayload(buf, order)
    [] tagID = tagLong      -> readTagLongPayload(buf, order)
    [] tagID = tagFloat     -> readTagFloatPayload(buf, order)
    [] tagID = tagDouble    -> readTagDoublePayload(buf, order)
    [] tagID = tagByteArray -> readTagByteArrayPayload(buf, order)
    [] tagID = tagString    -> readTagStringPayload(buf, order)
    [] tagID = tagList      -> readTagListPayload(buf, order)
    [] tagID = tagCompound  -> readTagCompoundPayload(buf, order)
    [] tagID = tagIntArray  -> readTagIntArrayPayload(buf, order)
    [] tagID = tagLongArray -> readTagLongArrayPayload(buf, order)
    [] OTHER -> Ret(buf, NilPayload, NilErr)

\* readTagPayload: the payload reader of the tag id
readTagPayload(buf, order, tagID) ==
  CASE tagID = tagEnd       -> Ret(buf, NilPayload, Errorf("Not expecting to read a tagEnd in the payload", 0))
    [] tagID = tagByte      -> readTagBytePayload(buf, order)
    [] tagID = tagShort     -> readTagShortPayload(buf, order)
    [] tagID = tagInt       -> readTagIntPayload(buf, order)
    [] tagID = tagLong      -> readTagLongPayload(buf, order)
    [] tagID = tagFloat     -> readTagFloatPayload(buf, order)
    [] tagID = tagDouble    -> readTagDoublePayload(buf, order)
    [] tagID = tagByteArray -> readTagByteArrayPayload(buf, order)
    [] tagID = tagString    -> readTagStringPayload(buf, order)
    [] tagID = tagList      -> readTagListPayload(buf, order)
    [] tagID = tagCompound  -> readTagCompoundPayload(buf, order)
    [] tagID = tagIntArray  -> readTagIntArrayPayload(buf, order)
    [] tagID = tagLongArray -> readTagLongArrayPayload(buf, order)
    [] OTHER -> Ret(buf, NilPayload, Errorf("tag ID not between 0 (tagEnd) and 12 (tagLongArray)", tagID))

\* the end of ReadTag with t as far as it was filled in returned when the
\* payload fails
ReadTagPayloadRead_partial(id, name, r) ==
  IF r.panic THEN Panic(r.buffer)
  ELSE IF r.err # NilErr
    THEN Ret(r.buffer, Tag(id, name, NilPayload), Wrap("Unable to read tag", 0, r.err))
  ELSE Ret(r.buffer, Tag(id, name, r.val), NilErr)

\* the end of ReadTag with the name never stored in t
ReadTagPayloadRead_nameless(id, name, r) ==
  IF r.panic THEN Panic(r.buffer)
  ELSE IF r.err # NilErr
    THEN Ret(r.buffer, ZeroTag, Wrap("Unable to read tag", 0, r.err))
  ELSE Ret(r.buffer, Tag(id, << >>, r.val), NilErr)

\* the end of ReadTag with the error of the payload returned as it is
ReadTagPayloadRead_unwrapped(id, name, r) ==
  IF r.panic THEN Panic(r.buffer)
  ELSE IF r.err # NilErr
    THEN Ret(r.buffer, ZeroTag, r.err)
  ELSE Ret(r.buffer, Tag(id, name, r.val), NilErr)

\* the end of ReadTag, once readTagPayload returned r for the tag of this
\* id and name: if err != nil { return tag{}, err }; return t, nil
ReadTagPayloadRead(id, name, r) ==
  IF r.panic THEN Panic(r.buffer)
  ELSE IF r.err # NilErr
    THEN Ret(r.buffer, ZeroTag, Wrap("Unable to read tag", 0, r.err))
  ELSE Ret(r.buffer, Tag(id, name, r.val), NilErr)

\* ReadTag with the name read before the id is compared with tagEnd
ReadTag_nameForEnd(buf, order) ==
  LET r1 == readTagID(buf, order)
      r2 == readTagName(r1.buffer, order)
  IN IF r1.err # NilErr
       THEN Ret(r1.buffer, ZeroTag, Wrap("Unable to read tag", 0, r1.err))
     ELSE IF r2.panic THEN Panic(r2.buffer)
     ELSE IF r2.err # NilErr
       THEN Ret(r2.buffer, ZeroTag, Wrap("Unable to read tag", 0, r2.err))
     ELSE IF r1.val = tagEnd
       THEN Ret(r2.buffer, Tag(r1.val, << >>, NilPayload), NilErr)
     ELSE ReadTagPayloadRead(r1.val, r2.val, readTagPayload(r2.buffer, order, r1.val))

\* ReadTag reading through a buffered reader of its own (bufio.NewReader):
\* what the buffer took from the stream is gone when the call returns
ReadTag_buffered(buf, order) ==
  LET r1 == readTagID(buf, order)
      r2 == readTagName(r1.buffer, order)
      r  == IF r1.err # NilErr
              THEN Ret(r1.buffer, ZeroTag, Wrap("Unable to read tag", 0, r1.err))
            ELSE IF r1.val = tagEnd
              THEN Ret(r1.buffer, Tag(r1.val, << >>, NilPayload), NilErr)
            ELSE IF r2.panic THEN Panic(r2.buffer)
            ELSE IF r2.err # NilErr
              THEN Ret(r2.buffer, ZeroTag, Wrap("Unable to read tag", 0, r2.err))
            ELSE ReadTagPayloadRead(r1.val, r2.val, readTagPayload(r2.buffer, order, r1.val))
  IN [r EXCEPT !.buffer.pos = Len(buf.bytes)]

\* ReadTag: the id, for a tagEnd nothing more, else the name and the
\* payload; tag{} with the wrapped error when any of them fails
ReadTag(buf, order) ==
  LET r1 == readTagID(buf, order)
      r2 == readTagName(r1.buffer, order)
  IN IF r1.err # NilErr
       THEN Ret(r1.buffer, ZeroTag, Wrap("Unable to read tag", 0, r1.err))
     ELSE IF r1.val = tagEnd
       THEN Ret(r1.buffer, Tag(r1.val, << >>, NilPayload), NilErr)
     ELSE IF r2.panic THEN Panic(r2.buffer)
     ELSE IF r2.err # NilErr
       THEN Ret(r2.buffer, ZeroTag, Wrap("Unable to read tag", 0, r2.err))
     ELSE ReadTagPayloadRead(r1.val, r2.val, readTagPayload(r2.buffer, order, r1.val))

---------------------------------------------------------------------------
(* The streams the readers are applied to *)

\* longest stream of RawBytes that is enumerated exhaustively
MaxRaw == 3

\* most children of the compounds that are generated
MaxKids == 2

\* bytes that steer the decoder: tagEnd / a zero length, tagByte / length
\* one, tagCompound, and 0xFF (no tag id, a sign bit, no UTF-8)
RawBytes == {0, 1, 10, 255}

RECURSIVE SeqsUpTo(_, _)
\* the sequences over S of length at most n
SeqsUpTo(S, n) ==
  IF n = 0 THEN {<< >>}
  ELSE LET shorter == SeqsUpTo(S, n - 1)
       IN shorter \cup {Append(q, x) : q \in {t \in shorter : Len(t) = n - 1}, x \in S}

\* binary.<order>.PutUint16 / PutUint32 of the tests: the bytes of n in
\* `width` bytes, two's complement
Put(order, n, width) ==
  LET msb == [i \in 1..width |-> (n \div (256 ^ (width - i))) % 256]
  IN IF order = "BigEndian" THEN msb ELSE [i \in 1..width |-> msb[width + 1 - i]]

\* id and name of a tag on the wire
Header(order, id, name) == <<id>> \o Put(order, Len(name), 2) \o name

\* a tagByte on the wire
ByteTag(order, name, v) == Header(order, tagByte, name) \o <<v>>

\* the least well-formed payload of each tag id: zero, empty
MinimalPayload(id) ==
  CASE id = tagEnd -> << >>
    [] id \in {tagByte, tagCompound} -> Zeros(1)
    [] id \in {tagShort, tagString} -> Zeros(2)
    [] id \in {tagInt, tagFloat, tagByteArray, tagIntArray, tagLongArray} -> Zeros(4)
    [] id = tagList -> Zeros(5)
    [] id \in {tagLong, tagDouble} -> Zeros(8)

\* the least well-formed tag of each id: tagEnd is the id alone, the others
\* have the empty name
MinimalTag(id) ==
  IF id = tagEnd THEN <<tagEnd>> ELSE <<id, 0, 0>> \o MinimalPayload(id)

RECURSIVE Flatten(_)
Flatten(ss) == IF ss = << >> THEN << >> ELSE Head(ss) \o Flatten(Tail(ss))

\* children a generated compound is made of: tagBytes with and without a
\* name, and an empty compound
Kids(order) ==
  { ByteTag(order, <<65>>, 7), ByteTag(order, << >>, 9), MinimalTag(tagCompound) }

\* compound payloads of at most MaxKids children, with a byte after them
Compounds(order) ==
  { [id |-> tagCompound, bytes |-> Flatten(ks) \o <<tagEnd, 1>>] :
      ks \in SeqsUpTo(Kids(order), MaxKids) }

\* a list of one element of each tag id that has a payload, with a byte
\* after it
ListsOfOne(order) ==
  { [id |-> tagList, bytes |-> <<t>> \o Put(order, 1, 4) \o MinimalPayload(t) \o <<1>>] :
      t \in tagByte..tagLongArray }

\* payloads as the tests write them, in the given byte order, each with the
\* id of the tag it is the payload of
Payloads(order) ==
  Compounds(order) \cup ListsOfOne(order) \cup
  { \* a compound holding a list of one compound, then a string
    [id |-> tagCompound, bytes |->
      Header(order, tagList, << >>) \o <<tagCompound>> \o Put(order, 1, 4)
        \o ByteTag(order, << >>, 5) \o <<tagEnd>>
        \o Header(order, tagString, <<66>>) \o Put(order, 2, 2) \o <<195, 169>>
        \o <<tagEnd>>],
    \* the same with a string that is not UTF-8
    [id |-> tagCompound, bytes |->
      Header(order, tagList, << >>) \o <<tagCompound>> \o Put(order, 1, 4)
        \o ByteTag(order, << >>, 5) \o <<tagEnd>>
        \o Header(order, tagString, <<66>>) \o Put(order, 2, 2) \o <<192, 255>>
        \o <<tagEnd>>],
    \* children whose name has a negative length, or is not UTF-8
    [id |-> tagCompound, bytes |->
      ByteTag(order, << >>, 5) \o <<tagByte>> \o Put(order, -1, 2) \o <<0, tagEnd>>],
    [id |-> tagCompound, bytes |->
      Header(order, tagByte, <<192, 255>>) \o <<0, tagEnd>>],
    \* arrays: negative sizes, a size beyond the stream, well-formed
    [id |-> tagByteArray, bytes |-> Put(order, -3, 4) \o <<18, 52, 86>>],
    [id |-> tagByteArray, bytes |-> Put(order, 8, 4) \o <<1, 2, 3>>],
    [id |-> tagByteArray, bytes |-> Put(order, 2, 4) \o <<1, 2, 3>>],
    [id |-> tagIntArray, bytes |-> Put(order, -1, 4) \o Zeros(4)],
    [id |-> tagIntArray, bytes |-> Put(order, 2, 4) \o Put(order, 1, 4) \o Put(order, -4, 4)],
    [id |-> tagIntArray, bytes |-> Put(order, 1, 4) \o Put(order, -4, 4) \o <<9>>],
    [id |-> tagLongArray, bytes |-> Put(order, -2147483647 - 1, 4) \o Zeros(8)],
    [id |-> tagLongArray, bytes |-> Put(order, 1, 4) \o Put(order, -4, 4) \o Put(order, 128, 4)],
    \* lists: well-formed, negative lengths, element types 0 and 13
    [id |-> tagList, bytes |-> <<tagInt>> \o Put(order, 2, 4) \o Put(order, 1, 4) \o Put(order, 128, 4)],
    [id |-> tagList, bytes |-> <<tagShort>> \o Put(order, 3, 4)
                                 \o Put(order, 1, 2) \o Put(order, -2, 2) \o Put(order, 256, 2) \o <<1>>],
    [id |-> tagList, bytes |-> <<tagString>> \o Put(order, 2, 4)
                                 \o Put(order, 1, 2) \o <<65>> \o Put(order, 0, 2)],
    [id |-> tagList, bytes |-> <<tagCompound>> \o Put(order, 2, 4)
                                 \o ByteTag(order, <<65>>, 7) \o <<tagEnd, tagEnd>>],
    [id |-> tagList, bytes |-> <<tagList>> \o Put(order, 2, 4)
                                 \o <<tagByte>> \o Put(order, 2, 4) \o <<5, 6>>
                                 \o <<tagShort>> \o Put(order, 1, 4) \o Put(order, -2, 2)],
    [id |-> tagList, bytes |-> <<tagByte>> \o Put(order, -1, 4) \o <<5, 6>>],
    [id |-> tagList, bytes |-> <<tagCompound>> \o Put(order, -2, 4) \o <<tagEnd>>],
    [id |-> tagList, bytes |-> <<tagEnd>> \o Put(order, 1, 4) \o <<0>>],
    [id |-> tagList, bytes |-> <<13>> \o Put(order, 0, 4) \o <<0>>],
    [id |-> tagList, bytes |-> <<13>> \o Put(order, -1, 4)],
    [id |-> tagList, bytes |-> <<13>> \o Put(order, 2, 4) \o <<0, 0>>],
    [id |-> tagList, bytes |-> <<255>> \o Put(order, 1, 4) \o <<7>>],
    \* strings: not UTF-8, a length with the high bit set
    [id |-> tagString, bytes |-> Put(order, 4, 2) \o <<65, 192, 255, 97>>],
    [id |-> tagString, bytes |-> Put(order, 2, 2) \o <<192, 255>>],
    [id |-> tagString, bytes |-> Put(order, -32768, 2) \o <<65, 66>>]
  }

\* names as the tests write them: well-formed, not UTF-8, negative lengths
Names(order) ==
  { Put(order, 1, 2) \o <<65, 0>>,
    Put(order, 2, 2) \o <<192, 255, 0>>,
    Put(order, -1, 2) \o <<0>>,
    Put(order, -32768, 2) \o <<0, 0>> }

\* the payloads alone, the tags of them with the empty name, and tags of
\* the names
Fixtures(order) ==
  { p.bytes : p \in Payloads(order) }
    \cup { Header(order, p.id, << >>) \o p.bytes : p \in Payloads(order) }
    \cup Names(order)
    \cup { <<tagByte>> \o n : n \in Names(order) }
    \cup { Header(order, tagList, <<110, 195, 169>>) \o <<tagShort>> \o Put(order, 2, 4)
             \o Put(order, 1, 2) \o Put(order, -2, 2) }

\* every prefix of s: the stream cut short at each byte
Prefixes(s) == { SubSeq(s, 1, n) : n \in 0..Len(s) }

\* the tag id whose payload has Go type k
IdOfKind(k) ==
  CASE k = "byte" -> tagByte
    [] k = "int16" -> tagShort
    [] k = "int32" -> tagInt
    [] k = "int64" -> tagLong
    [] k = "float32" -> tagFloat
    [] k = "float64" -> tagDouble
    [] k = "[]byte" -> tagByteArray
    [] k = "string" -> tagString
    [] k = "[]any" -> tagList
    [] k = "[]*tag" -> tagCompound
    [] k = "[]int32" -> tagIntArray
    [] k = "[]int64" -> tagLongArray

\* 8 bytes kept most significant first, in the given byte order
Put64(order, b) == IF order = "BigEndian" THEN b ELSE [i \in 1..Len(b) |-> b[Len(b) + 1 - i]]

RECURSIVE encodePayload(_, _)
RECURSIVE encodeTag(_, _)
\* the wire format, written: Payload(id) of the grammar for payload p, a
\* tree whose compounds hold their children themselves.  The element type
\* of a list is that of its first element, tagEnd for the empty list.
encodePayload(order, p) ==
  CASE p.k = "byte" -> <<p.v>>
    [] p.k = "int16" -> Put(order, p.v, 2)
    [] p.k = "int32" -> Put(order, p.v, 4)
    [] p.k \in {"int64", "float32", "float64"} -> Put64(order, p.v)
    [] p.k = "[]byte" -> Put(order, Len(p.v), 4) \o p.v
    [] p.k = "string" -> Put(order, Len(p.v), 2) \o p.v
    [] p.k = "[]int32" ->
         Put(order, Len(p.v), 4) \o Flatten([i \in 1..Len(p.v) |-> Put(order, p.v[i], 4)])
    [] p.k = "[]int64" ->
         Put(order, Len(p.v), 4) \o Flatten([i \in 1..Len(p.v) |-> Put64(order, p.v[i])])
    [] p.k = "[]any" ->
         << IF p.v = << >> THEN tagEnd ELSE IdOfKind(p.v[1].k) >>
           \o Put(order, Len(p.v), 4)
           \o Flatten([i \in 1..Len(p.v) |-> encodePayload(order, p.v[i])])
    [] p.k = "[]*tag" ->
         Flatten([i \in 1..Len(p.v) |-> encodeTag(order, p.v[i])]) \o <<tagEnd>>

\* Tag of the grammar: id, name, payload
encodeTag(order, t) ==
  <<t.id>> \o Put(order, Len(t.name), 2) \o t.name \o encodePayload(order, t.payload)

\* What is written and read back.  Payloads of different Go types are kept
\* in tuples, never in one set, and a tree is named by a code: which tuple
\* its parts are drawn from, and which parts.

\* the payloads lists are made of, each tuple of one Go type: two of every
\* type without a payload inside it (among them the least int32 and int64,
\* a NaN, an infinity, empty and non-empty arrays and strings), then lists
\* and compounds
Elements ==
  << << Payload("byte", 0), Payload("byte", 255) >>,
     << Payload("int16", -2), Payload("int16", 256) >>,
     << Payload("int32", -2147483647 - 1), Payload("int32", 16909060) >>,
     << Payload("int64", <<128, 0, 0, 0, 0, 0, 0, 0>>), Payload("int64", <<0, 0, 0, 0, 0, 0, 1, 2>>) >>,
     << Payload("float32", <<127, 192, 0, 0>>), Payload("float32", <<63, 128, 0, 0>>) >>,
     << Payload("float64", <<127, 240, 0, 0, 0, 0, 0, 0>>),
        Payload("float64", <<191, 240, 0, 0, 0, 0, 0, 1>>) >>,
     << Payload("[]byte", << >>), Payload("[]byte", <<1, 255>>) >>,
     << Payload("string", << >>), Payload("string", <<195, 169>>) >>,
     << Payload("[]int32", << >>), Payload("[]int32", <<1, -4>>) >>,
     << Payload("[]int64", << >>), Payload("[]int64", << <<255, 255, 255, 255, 255, 255, 255, 254>> >>) >>,
     << Payload("[]any", << >>),
        Payload("[]any", <<Payload("byte", 0), Payload("byte", 255)>>),
        Payload("[]any", <<Payload("string", <<195, 169>>)>>) >>,
     << Payload("[]*tag", << >>),
        Payload("[]*tag", <<Tag(tagByte, <<65>>, Payload("byte", 7))>>) >> >>

\* the tags compounds are made of: tags without a payload inside them, and
\* lists and compounds
Children ==
  << << Tag(tagByte, <<65>>, Payload("byte", 255)),
        Tag(tagString, << >>, Payload("string", <<195, 169>>)),
        Tag(tagShort, <<66, 67>>, Payload("int16", -2)) >>,
     << Tag(tagList, <<76>>, Payload("[]any", <<Payload("int32", -4)>>)),
        Tag(tagCompound, << >>,
            Payload("[]*tag", <<Tag(tagLong, <<65>>, Payload("int64", Zeros(8)))>>)),
        Tag(tagList, << >>, Payload("[]any", <<Payload("[]*tag", << >>)>>)) >> >>

\* the names the trees are written with: none, and "né"
TreeNames == { << >>, <<110, 195, 169>> }

\* the codes of the trees: one element alone, a list of at most MaxKids
\* elements of one tuple, a compound of at most MaxKids children of one tuple
TreeCodes ==
  { [shape |-> "one", from |-> f, picks |-> <<i>>, name |-> n] :
      f \in 1..Len(Elements), i \in 1..2, n \in TreeNames }
    \cup { [shape |-> "list", from |-> f, picks |-> ps, name |-> n] :
             f \in 1..Len(Elements), ps \in SeqsUpTo(1..2, MaxKids), n \in TreeNames }
    \cup { [shape |-> "compound", from |-> f, picks |-> ps, name |-> n] :
             f \in 1..Len(Children), ps \in SeqsUpTo(1..3, MaxKids), n \in TreeNames }

\* the payload a code names
PayloadOf(c) ==
  CASE c.shape = "one" -> Elements[c.from][c.picks[1]]
    [] c.shape = "list" ->
         Payload("[]any", [i \in 1..Len(c.picks) |-> Elements[c.from][c.picks[i]]])
    [] c.shape = "compound" ->
         Payload("[]*tag", [i \in 1..Len(c.picks) |-> Children[c.from][c.picks[i]]])

\* the tag tree a code names
TreeOf(c) == Tag(IdOfKind(PayloadOf(c).k), c.name, PayloadOf(c))

\* each tree as written in each byte order, with a byte after it
Encoded ==
  { [order |-> order, code |-> c, bytes |-> encodeTag(order, TreeOf(c)) \o <<1>>] :
      order \in Orders, c \in TreeCodes }

\* a list of no elements of every element type a byte can hold, each with
\* a byte after it
EmptyLists == { <<t>> \o Zeros(4) \o <<1>> : t \in Uint8 }

\* a string of 32768 bytes, the first length whose high bit is set, with a
\* byte after it; the length is written big-endian
LongString == Put("BigEndian", 32768, 2) \o Zeros(32768) \o <<1>>

\* floats as the tests write them, little-endian: zero, minus zero, pi,
\* the greatest, the infinities, the NaN 0x7FC00000, and NaNs with other
\* bits: a signalling one, a negative one; doubles likewise
Floats ==
  { <<0, 0, 0, 0>>, <<0, 0, 0, 128>>, <<219, 15, 73, 64>>, <<255, 255, 127, 127>>,
    <<0, 0, 128, 127>>, <<0, 0, 128, 255>>, <<0, 0, 192, 127>>,
    <<1, 0, 160, 127>>, <<255, 255, 255, 255>>,
    <<24, 45, 68, 84, 251, 33, 9, 64>>, <<0, 0, 0, 0, 0, 0, 240, 127>>,
    <<0, 0, 0, 0, 0, 0, 248, 127>>, <<1, 0, 0, 0, 0, 0, 240, 127>>,
    <<2, 0, 0, 0, 0, 0, 248, 255>> }

\* tags one after the other on one stream, as the children of a compound
\* are: a short, a list of two bytes, a compound of one child, a string and
\* a tagEnd
TagsInARow(order) ==
  Header(order, tagShort, <<65>>) \o Put(order, -2, 2)
    \o Header(order, tagList, << >>) \o <<tagByte>> \o Put(order, 2, 4) \o <<5, 6>>
    \o Header(order, tagCompound, <<66>>) \o ByteTag(order, <<67>>, 7) \o <<tagEnd>>
    \o Header(order, tagString, <<68>>) \o Put(order, 2, 2) \o <<195, 169>>
    \o <<tagEnd>>

Streams ==
  SeqsUpTo(RawBytes, MaxRaw)
    \cup { TagsInARow(order) : order \in Orders }
    \cup { f \o <<1>> : f \in Floats }
    \cup {LongString}
    \cup EmptyLists
    \cup { e.bytes : e \in Encoded }
    \cup { <<b>> : b \in Uint8 }
    \cup { MinimalTag(id) : id \in tagEnd..tagLongArray }
    \cup UNION { Prefixes(f) : f \in Fixtures("BigEndian") \cup Fixtures("LittleEndian") }

\* the streams a source delivers before it fails: the short ones, and the
\* big-endian payloads and names cut short at each byte
FaultyStreams ==
  SeqsUpTo(RawBytes, MaxRaw)
    \cup UNION { Prefixes(p.bytes) : p \in Payloads("BigEndian") }
    \cup UNION { Prefixes(n) : n \in Names("BigEndian") }

---------------------------------------------------------------------------
(* The state machine: a stream, and the readers applied to it *)

\* the stream as a caller hands it to a reader: what earlier calls read and
\* allocated is no part of this call
Fresh(buf) == [buf EXCEPT !.log = << >>, !.mem = << >>]

NoCall ==
  [op |-> "none", order |-> "BigEndian", id |-> 0, start |-> 0,
   val |-> 0, err |-> NilErr, panic |-> FALSE]

\* a bytes.Buffer over any of the streams, or a source that fails
\* (iotest.ErrReader), at once or after it has delivered the bytes of a
\* stream
Init ==
  /\ \E bytes \in Streams, broken \in BOOLEAN :
       /\ broken => bytes \in FaultyStreams
       /\ buffer = [bytes |-> bytes, broken |-> broken, pos |-> 0, log |-> << >>, mem |-> << >>]
  /\ last = NoCall

\* the caller applies reader `op` (of tag id `id`, for readTagPayload) and
\* gets r
Return(op, order, id, r) ==
  /\ buffer' = r.buffer
  /\ last' = [op |-> op, order |-> order, id |-> id, start |-> buffer.pos,
              val |-> r.val, err |-> r.err, panic |-> r.panic]

\* a test applies one reader to a stream it has just made
Call(op, order, id, r) ==
  /\ last.op = "none"
  /\ Return(op, order, id, r)

\* a caller decodes tag after tag from one stream, and gives up at the
\* first error (a panic ends the program)
CallReadTag ==
  /\ last.op \in {"none", "ReadTag"}
  /\ last.err = NilErr /\ ~last.panic
  /\ \E order \in Orders : Return("ReadTag", order, 0, ReadTag(Fresh(buffer), order))

CallReadTagID ==
  \E order \in Orders : Call("readTagID", order, 0, readTagID(Fresh(buffer), order))

CallReadTagName ==
  \E order \in Orders : Call("readTagName", order, 0, readTagName(Fresh(buffer), order))

\* the ids readTagPayload is called with: three tag ids, and two that are none
PayloadIDs == {tagEnd, tagByte, tagCompound, 13, 255}

CallReadTagPayload ==
  \E order \in Orders, id \in PayloadIDs :
    Call("readTagPayload", order, id, readTagPayload(Fresh(buffer), order, id))

CallReadTagBytePayload ==
  \E order \in Orders :
    Call("readTagBytePayload", order, tagByte, readTagBytePayload(Fresh(buffer), order))

CallReadTagShortPayload ==
  \E order \in Orders :
    Call("readTagShortPayload", order, tagShort, readTagShortPayload(Fresh(buffer), order))

CallReadTagIntPayload ==
  \E order \in Orders :
    Call("readTagIntPayload", order, tagInt, readTagIntPayload(Fresh(buffer), order))

CallReadTagLongPayload ==
  \E order \in Orders :
    Call("readTagLongPayload", order, tagLong, readTagLongPayload(Fresh(buffer), order))

CallReadTagFloatPayload ==
  \E order \in Orders :
    Call("readTagFloatPayload", order, tagFloat, readTagFloatPayload(Fresh(buffer), order))

CallReadTagDoublePayload ==
  \E order \in Orders :
    Call("readTagDoublePayload", order, tagDouble, readTagDoublePayload(Fresh(buffer), order))

CallReadTagByteArrayPayload ==
  \E order \in Orders :
    Call("readTagByteArrayPayload", order, tagByteArray, readTagByteArrayPayload(Fresh(buffer), order))

CallReadTagStringPayload ==
  \E order \in Orders :
    Call("readTagStringPayload", order, tagString, readTagStringPayload(Fresh(buffer), order))

CallReadTagListPayload ==
  \E order \in Orders :
    Call("readTagListPayload", order, tagList, readTagListPayload(Fresh(buffer), order))

CallReadTagCompoundPayload ==
  \E order \in Orders :
    Call("readTagCompoundPayload", order, tagCompound, readTagCompoundPayload(Fresh(buffer), order))

CallReadTagIntArrayPayload ==
  \E order \in Orders :
    Call("readTagIntArrayPayload", order, tagIntArray, readTagIntArrayPayload(Fresh(buffer), order))

CallReadTagLongArrayPayload ==
  \E order \in Orders :
    Call("readTagLongArrayPayload", order, tagLongArray, readTagLongArrayPayload(Fresh(buffer), order))

Next ==
  \/ CallReadTag
  \/ CallReadTagID
  \/ CallReadTagName
  \/ CallReadTagPayload
  \/ CallReadTagBytePayload
  \/ CallReadTagShortPayload
  \/ CallReadTagIntPayload
  \/ CallReadTagLongPayload
  \/ CallReadTagFloatPayload
  \/ CallReadTagDoublePayload
  \/ CallReadTagByteArrayPayload
  \/ CallReadTagStringPayload
  \/ CallReadTagListPayload
  \/ CallReadTagCompoundPayload
  \/ CallReadTagIntArrayPayload
  \/ CallReadTagLongArrayPayload

Spec == Init /\ [][Next]_vars

---------------------------------------------------------------------------
(* tagType, applied to tags made for it *)

\* tagType without the case of tagLongArray
tagType_noLongArray(t) ==
  CASE t.id = tagEnd       -> [tagType |-> "tagEnd", err |-> NilErr]
    [] t.id = tagByte      -> [tagType |-> "tagByte", err |-> NilErr]
    [] t.id = tagShort     -> [tagType |-> "tagShort", err |-> NilErr]
    [] t.id = tagInt       -> [tagType |-> "tagInt", err |-> NilErr]
    [] t.id = tagLong      -> [tagType |-> "tagLong", err |-> NilErr]
    [] t.id = tagFloat     -> [tagType |-> "tagFloat", err |-> NilErr]
    [] t.id = tagDouble    -> [tagType |-> "tagDouble", err |-> NilErr]
    [] t.id = tagByteArray -> [tagType |-> "tagByteArray", err |-> NilErr]
    [] t.id = tagString    -> [tagType |-> "tagString", err |-> NilErr]
    [] t.id = tagList      -> [tagType |-> "tagList", err |-> NilErr]
    [] t.id = tagCompound  -> [tagType |-> "tagCompound", err |-> NilErr]
    [] t.id = tagIntArray  -> [tagType |-> "tagIntArray", err |-> NilErr]
    [] OTHER -> [tagType |-> "",
                 err |-> Errorf("tag ID not between 0 (tagEnd) and 12 (tagLongArray)", t.id)]

\* (t *tag) tagType(): the name of the tag id; for an id that is none, the
\* empty name and an error
tagType(t) ==
  CASE t.id = tagEnd       -> [tagType |-> "tagEnd", err |-> NilErr]
    [] t.id = tagByte      -> [tagType |-> "tagByte", err |-> NilErr]
    [] t.id = tagShort     -> [tagType |-> "tagShort", err |-> NilErr]
    [] t.id = tagInt       -> [tagType |-> "tagInt", err |-> NilErr]
    [] t.id = tagLong      -> [tagType |-> "tagLong", err |-> NilErr]
    [] t.id = tagFloat     -> [tagType |-> "tagFloat", err |-> NilErr]
    [] t.id = tagDouble    -> [tagType |-> "tagDouble", err |-> NilErr]
    [] t.id = tagByteArray -> [tagType |-> "tagByteArray", err |-> NilErr]
    [] t.id = tagString    -> [tagType |-> "tagString", err |-> NilErr]
    [] t.id = tagList      -> [tagType |-> "tagList", err |-> NilErr]
    [] t.id = tagCompound  -> [tagType |-> "tagCompound", err |-> NilErr]
    [] t.id = tagIntArray  -> [tagType |-> "tagIntArray", err |-> NilErr]
    [] t.id = tagLongArray -> [tagType |-> "tagLongArray", err |-> NilErr]
    [] OTHER -> [tagType |-> "",
                 err |-> Errorf("tag ID not between 0 (tagEnd) and 12 (tagLongArray)", t.id)]

\* the tags of the tests, tag{id, "", nil} of any id a uint8 holds, and the
\* same with a name; no stream is read
InitTagType ==
  /\ buffer = [bytes |-> << >>, broken |-> FALSE, pos |-> 0, log |-> << >>, mem |-> << >>]
  /\ \E id \in Uint8, name \in TreeNames :
       last = [NoCall EXCEPT !.id = id, !.val = Tag(id, name, NilPayload)]

\* t.tagType() of the tag made
CallTagType ==
  /\ last.op = "none"
  /\ last' = [last EXCEPT !.op = "tagType",
                          !.val = tagType(last.val).tagType,
                          !.err = tagType(last.val).err]
  /\ UNCHANGED buffer

NextTagType == CallTagType

SpecTagType == InitTagType /\ [][NextTagType]_vars

---------------------------------------------------------------------------
(* ReadTag read by read: invocations running side by side, each on a      *)
(* stream of its own.  An invocation is its stream and its call stack; a  *)
(* step of it is one binary.Read and the code up to the next one.         *)

\* a frame of the call stack: the function and the place in it (f) and the
\* locals held there: a tag id, a size or length, the loop index, the name,
\* the elements appended so far, the address of t
Fr(f, id, n, i, name, acc, addr) ==
  [f |-> f, id |-> id, n |-> n, i |-> i, name |-> name, acc |-> acc, addr |-> addr]

\* a frame that holds a tag id alone
At(f, id) == Fr(f, id, 0, 0, << >>, << >>, 0)

\* an invocation that has not returned
Running(buf, stack) ==
  [buffer |-> buf, stack |-> stack, done |-> FALSE,
   val |-> ZeroTag, err |-> NilErr, panic |-> FALSE]

Top(m) == m.stack[Len(m.stack)]

\* the stack without its top frame, the stream being buf
Pop(m, buf) == [m EXCEPT !.buffer = buf, !.stack = SubSeq(m.stack, 1, Len(m.stack) - 1)]

\* a call: a frame more
Push(m, buf, fr) == [m EXCEPT !.buffer = buf, !.stack = Append(m.stack, fr)]

\* the top frame moves on to fr
Goto(m, buf, fr) == [m EXCEPT !.buffer = buf, !.stack[Len(m.stack)] = fr]

\* the array reader of a tag id
KindOfID(id) ==
  CASE id = tagByteArray -> ByteArrayKind
    [] id = tagIntArray  -> IntArrayKind
    [] id = tagLongArray -> LongArrayKind

RECURSIVE Begin(_, _)
RECURSIVE Deliver(_, _)
RECURSIVE Fail(_, _)

\* the iteration of the compound loop begins: a new t, and ReadTag is
\* called
BeginChild(m, d, i, acc) ==
  Push(Push(m, d.buffer, Fr("readTagCompoundPayload", tagCompound, 0, i, << >>, acc, d.addr)),
       d.buffer, At("ReadTag id", 0))

\* the function of the top frame returns err: its caller wraps it and
\* returns it in turn, up to the caller of the invocation
Fail(m, err) ==
  IF m.stack = << >>
    THEN [m EXCEPT !.done = TRUE, !.val = ZeroTag, !.err = err]
  ELSE CASE Top(m).f = "ReadTag" ->
              Fail(Pop(m, m.buffer), Wrap("Unable to read tag", 0, err))
         [] Top(m).f = "readTagListPayload" ->
              Fail(Pop(m, m.buffer), Wrap("Unable to read tagList payload element", Top(m).i, err))
         [] Top(m).f = "readTagCompoundPayload" ->
              Fail(Pop(m, [m.buffer EXCEPT !.mem[Top(m).addr] = ZeroTag]),
                   Wrap("Unable to read tagCompound payload element", Top(m).i, err))

\* readTagPayload(tagID) is called: the reader of the id takes its place
\* on the stack, up to its first binary.Read; the ids without a reader
\* return their error at once
Begin(m, id) ==
  CASE id \in tagByte..tagDouble -> Push(m, m.buffer, At("scalar", id))
    [] id \in {tagByteArray, tagIntArray, tagLongArray} -> Push(m, m.buffer, At("array size", id))
    [] id = tagString -> Push(m, m.buffer, At("string length", id))
    [] id = tagList -> Push(m, m.buffer, At("list type", id))
    [] id = tagCompound -> BeginChild(m, NewT(m.buffer, 0), 0, << >>)
    [] id = tagEnd -> Fail(m, Errorf("Not expecting to read a tagEnd in the payload", 0))
    [] OTHER -> Fail(m, Errorf("tag ID not between 0 (tagEnd) and 12 (tagLongArray)", id))

\* the function above the top frame returned val to it: ReadTag returns
\* the tag, the list loop appends and goes on or returns, the compound loop
\* breaks at a tagEnd or appends &t and goes on
Deliver(m, val) ==
  IF m.stack = << >>
    THEN [m EXCEPT !.done = TRUE, !.val = val, !.err = NilErr]
  ELSE CASE Top(m).f = "ReadTag" ->
              Deliver(Pop(m, m.buffer), Tag(Top(m).id, Top(m).name, val))
         [] Top(m).f = "readTagListPayload" ->
              IF Top(m).i + 1 >= Top(m).n
                THEN Deliver(Pop(m, m.buffer), Payload("[]any", Append(Top(m).acc, val)))
                ELSE Begin(Goto(m, m.buffer,
                                Fr("readTagListPayload", Top(m).id, Top(m).n, Top(m).i + 1,
                                   << >>, Append(Top(m).acc, val), 0)),
                           Top(m).id)
         [] Top(m).f = "readTagCompoundPayload" ->
              IF val.id = tagEnd
                THEN Deliver(Pop(m, [m.buffer EXCEPT !.mem[Top(m).addr] = val]),
                             Payload("[]*tag", Top(m).acc))
                ELSE BeginChild(Pop(m, m.buffer),
                                NewT([m.buffer EXCEPT !.mem[Top(m).addr] = val], Top(m).addr),
                                Top(m).i + 1, Append(Top(m).acc, Top(m).addr))

\* ReadTag at readTagID
stepID(m, order, r) ==
  IF r.err # NilErr THEN Fail(Pop(m, r.buffer), Wrap("Unable to read tag", 0, r.err))
  ELSE IF r.val = tagEnd THEN Deliver(Pop(m, r.buffer), Tag(tagEnd, << >>, NilPayload))
  ELSE Goto(m, r.buffer, At("name length", r.val))

\* readTagName at the read of the length; make panics when it is negative
stepNameLength(m, order, r) ==
  IF r.err # NilErr
    THEN Fail(Pop(m, r.buffer),
              Wrap("Unable to read tag", 0, Wrap("Unable to read tag name length for", 0, r.err)))
  ELSE IF Signed(order, r.data) < 0
    THEN [m EXCEPT !.buffer = r.buffer, !.done = TRUE, !.panic = TRUE]
  ELSE Goto(m, r.buffer, Fr("name", Top(m).id, Signed(order, r.data), 0, << >>, << >>, 0))

\* readTagName at the read of the bytes; then ReadTag calls readTagPayload
stepName(m, order, r) ==
  IF r.err # NilErr
    THEN Fail(Pop(m, r.buffer),
              Wrap("Unable to read tag", 0, Wrap("Unable to read tag name", 0, r.err)))
  ELSE IF ~ValidString(r.data)
    THEN Fail(Pop(m, r.buffer),
              Wrap("Unable to read tag", 0,
                   Errorf("Unable to read tag name: contains non UTF-8 charters", 0)))
  ELSE Begin(Goto(m, r.buffer, Fr("ReadTag", Top(m).id, 0, 0, r.data, << >>, 0)), Top(m).id)

\* one of the six scalar readers: its one read, done by the reader itself
stepScalar(m, order, r) ==
  IF r.err # NilErr THEN Fail(Pop(m, r.buffer), r.err)
  ELSE Deliver(Pop(m, r.buffer), r.val)

\* an array reader at the read of the size
stepArraySize(m, order, kind, r) ==
  IF r.err # NilErr THEN Fail(Pop(m, r.buffer), Wrap(kind.sizeMsg, 0, r.err))
  ELSE IF NegativeSize(Signed(order, r.data))
    THEN Fail(Pop(m, r.buffer), Errorf(kind.negMsg, Signed(order, r.data)))
  ELSE IF Signed(order, r.data) = 0
    THEN Deliver(Pop(m, r.buffer), Payload(kind.type, << >>))
  ELSE Goto(m, r.buffer, Fr("array element", Top(m).id, Signed(order, r.data), 0, << >>, << >>, 0))

\* an array reader at the read of element i
stepArrayElement(m, order, kind, r) ==
  IF r.err # NilErr THEN Fail(Pop(m, r.buffer), Wrap(kind.elemMsg, Top(m).i, r.err))
  ELSE IF Top(m).i + 1 >= Top(m).n
    THEN Deliver(Pop(m, r.buffer),
                 Payload(kind.type, Append(Top(m).acc, Element(kind, order, r.data))))
  ELSE Goto(m, r.buffer,
            Fr("array element", Top(m).id, Top(m).n, Top(m).i + 1, << >>,
               Append(Top(m).acc, Element(kind, order, r.data)), 0))

\* readTagStringPayload at the read of the length
stepStringLength(m, order, r) ==
  IF r.err # NilErr
    THEN Fail(Pop(m, r.buffer), Wrap("Unable to read tagString payload length", 0, r.err))
  ELSE Goto(m, r.buffer, Fr("string", tagString, Uint(order, r.data), 0, << >>, << >>, 0))

\* readTagStringPayload at the read of the bytes
stepString(m, order, r) ==
  IF r.err # NilErr
    THEN Fail(Pop(m, r.buffer), Wrap("Unable to read tagString payload", 0, r.err))
  ELSE IF ~ValidString(r.data)
    THEN Fail(Pop(m, r.buffer),
              Errorf("Unable to read tagString payload: contains non UTF-8 charters", 0))
  ELSE Deliver(Pop(m, r.buffer), Payload("string", r.data))

\* readTagListPayload at the read of the element type
stepListType(m, order, r) ==
  IF r.err # NilErr THEN Fail(Pop(m, r.buffer), Wrap("Unable to read tagList type", 0, r.err))
  ELSE Goto(m, r.buffer, At("list length", Uint(order, r.data)))

\* readTagListPayload at the read of the length; then the loop, which
\* calls readTagPayload when the length is positive
stepListLength(m, order, r) ==
  IF r.err # NilErr THEN Fail(Pop(m, r.buffer), Wrap("Unable to read tagList length", 0, r.err))
  ELSE IF Signed(order, r.data) <= 0
    THEN Deliver(Pop(m, r.buffer), Payload("[]any", << >>))
  ELSE Begin(Goto(m, r.buffer,
                  Fr("readTagListPayload", Top(m).id, Signed(order, r.data), 0, << >>, << >>, 0)),
             Top(m).id)

\* the next binary.Read of invocation m and the code after it
step(m, order) ==
  CASE Top(m).f = "ReadTag id" -> stepID(m, order, readTagID(m.buffer, order))
    [] Top(m).f = "name length" ->
         stepNameLength(m, order, binaryRead(m.buffer, 2, "readTagName length"))
    [] Top(m).f = "name" ->
         stepName(m, order, binaryRead(m.buffer, Top(m).n, "readTagName"))
    [] Top(m).f = "scalar" -> stepScalar(m, order, readTagPayload(m.buffer, order, Top(m).id))
    [] Top(m).f = "array size" ->
         stepArraySize(m, order, KindOfID(Top(m).id),
                       binaryRead(m.buffer, 4, KindOfID(Top(m).id).sizeBy))
    [] Top(m).f = "array element" ->
         stepArrayElement(m, order, KindOfID(Top(m).id),
                          binaryRead(m.buffer, KindOfID(Top(m).id).width, KindOfID(Top(m).id).by))
    [] Top(m).f = "string length" ->
         stepStringLength(m, order, binaryRead(m.buffer, 2, "readTagStringPayload length"))
    [] Top(m).f = "string" ->
         stepString(m, order, binaryRead(m.buffer, Top(m).n, "readTagStringPayload"))
    [] Top(m).f = "list type" ->
         stepListType(m, order, binaryRead(m.buffer, 1, "readTagListPayload type"))
    [] Top(m).f = "list length" ->
         stepListLength(m, order, binaryRead(m.buffer, 4, "readTagListPayload length"))

\* the two invocations
Workers == {1, 2}

\* the streams the invocations are given, written big-endian: a compound of
\* a list of a compound and of a string, the same cut short in the string,
\* a named int array, a tagEnd, a tag and a child of a compound whose name
\* has a negative length; and a source that fails in a list of shorts
WorkerStreams ==
  LET order == "BigEndian"
      nested == Header(order, tagCompound, <<65>>)
                  \o Header(order, tagList, << >>) \o <<tagCompound>> \o Put(order, 1, 4)
                  \o ByteTag(order, << >>, 5) \o <<tagEnd>>
                  \o Header(order, tagString, <<66>>) \o Put(order, 2, 2) \o <<195, 169>>
                  \o <<tagEnd>>
  IN { [bytes |-> nested, broken |-> FALSE],
       [bytes |-> SubSeq(nested, 1, Len(nested) - 2), broken |-> FALSE],
       [bytes |-> Header(order, tagIntArray, <<65>>) \o Put(order, 2, 4)
                    \o Put(order, 1, 4) \o Put(order, -4, 4), broken |-> FALSE],
       [bytes |-> <<tagEnd>>, broken |-> FALSE],
       [bytes |-> <<tagByte>> \o Put(order, -1, 2) \o <<0>>, broken |-> FALSE],
       [bytes |-> Header(order, tagCompound, << >>) \o ByteTag(order, << >>, 5)
                    \o <<tagByte>> \o Put(order, -1, 2) \o <<0, tagEnd>>, broken |-> FALSE],
       [bytes |-> Header(order, tagList, << >>) \o <<tagShort>> \o Put(order, 3, 4)
                    \o Put(order, 1, 2) \o <<0>>, broken |-> TRUE] }

\* each invocation is called with a stream and a byte order of its own
InitWorkers ==
  \E ss \in [Workers -> WorkerStreams], os \in [Workers -> Orders] :
    /\ buffer = [w \in Workers |->
                   Running([bytes |-> ss[w].bytes, broken |-> ss[w].broken,
                            pos |-> 0, log |-> << >>, mem |-> << >>],
                           << At("ReadTag id", 0) >>)]
    /\ last = [w \in Workers |-> [NoCall EXCEPT !.order = os[w], !.val = ZeroTag]]

\* an invocation has panicked: the panic is recovered nowhere, and the
\* program has ended
Crashed == \E w \in Workers : buffer[w].panic

\* invocation w does its next read; once it returns, the caller has what
\* it returned
StepWorker(w) ==
  /\ ~Crashed /\ ~buffer[w].done
  /\ buffer' = [buffer EXCEPT ![w] = step(buffer[w], last[w].order)]
  /\ last' = IF buffer'[w].done
               THEN [last EXCEPT ![w] = [op |-> "ReadTag", order |-> last[w].order, id |-> 0,
                                         start |-> 0, val |-> buffer'[w].val,
                                         err |-> buffer'[w].err, panic |-> buffer'[w].panic]]
               ELSE last

NextWorkers == \E w \in Workers : StepWorker(w)

SpecWorkers == InitWorkers /\ [][NextWorkers]_vars

---------------------------------------------------------------------------
(* What the claims are stated in *)

\* the call of the current state
Called(op) == last.op = op

Failed == ~last.panic /\ last.err # NilErr

Succeeded == ~last.panic /\ last.err = NilErr

\* bytes of the stream the call started with
Available == Len(buffer.bytes) - last.start

\* the n bytes at offset `off` of where the call started
Input(off, n) == Slice(buffer.bytes, last.start + off, n)

\* bytes the call consumed
Consumed == buffer.pos - last.start

InvalidIDMsg == "ID not between 0 (tagEnd) and 12 (tagLongArray)"

\* errors of a stream that ended: io.EOF and io.ErrUnexpectedEOF
Incomplete == {"EOF", "unexpected EOF"}

---------------------------------------------------------------------------
(* C1 *)

\* C1: for every id in 0..12 ReadTag of the least well-formed tag of that
\* id succeeds with that id; for every first byte in 13..255 ReadTag and
\* readTagID fail with the invalid-id error naming that byte.
C1_IdBounds ==
  /\ \A id \in tagEnd..tagLongArray :
       (Called("ReadTag") /\ last.start = 0 /\ buffer.bytes = MinimalTag(id))
         => (Succeeded /\ last.val.id = id /\ Consumed = Len(MinimalTag(id)))
  /\ \A b \in 13..255 :
       ((Called("ReadTag") \/ Called("readTagID")) /\ Available >= 1 /\ Input(0, 1) = <<b>>)
         => (Failed /\ last.err[Len(last.err)] = Frame(InvalidIDMsg, b))

C1_Witness ==
  /\ Called("ReadTag") /\ last.start = 0
  /\ buffer.bytes = MinimalTag(tagLongArray)
  /\ Succeeded /\ last.val.id = tagLongArray

---------------------------------------------------------------------------
(* C2 *)

ArraySizeReads ==
  {"readTagByteArrayPayload size", "readTagIntArrayPayload size", "readTagLongArrayPayload size"}

TextReads == {"readTagName", "readTagStringPayload"}

\* read e of the log met a field no reader accepts: the stream ended in it,
\* a tag id above 12, a negative array size, text that is not UTF-8
Malformed(e) ==
  LET data == Slice(buffer.bytes, e.at, e.got)
  IN \/ e.got < e.want
     \/ e.by = "readTagID" /\ data[1] > tagLongArray
     \/ e.by \in ArraySizeReads /\ Signed(last.order, data) < 0
     \/ e.by \in TextReads /\ \E i \in 1..e.got : data[i] \in {192, 193} \cup (245..255)

SomeMalformed == \E i \in 1..Len(buffer.log) : Malformed(buffer.log[i])

---------------------------------------------------------------------------
(* C3 *)

ArrayReaders ==
  {"readTagByteArrayPayload", "readTagIntArrayPayload", "readTagLongArrayPayload"}

\* the negative-size error of array reader op
NegativeSizeErr(op, size) ==
  LET kind == CASE op = "readTagByteArrayPayload" -> ByteArrayKind
                [] op = "readTagIntArrayPayload" -> IntArrayKind
                [] op = "readTagLongArrayPayload" -> LongArrayKind
  IN Errorf(kind.negMsg, size)

\* the call read a 4-byte size that is negative in the call's byte order
NegativeSizeRead ==
  /\ ~buffer.broken /\ Available >= 4
  /\ Signed(last.order, Input(0, 4)) < 0

---------------------------------------------------------------------------
(* C4 *)

\* the call read a list type and a 4-byte length that is negative in the
\* call's byte order
NegativeLengthRead ==
  /\ ~buffer.broken /\ Available >= 5
  /\ Signed(last.order, Input(1, 4)) < 0

---------------------------------------------------------------------------
(* C5 *)

\* the 2 bytes at offset off are a name length that is negative in the
\* call's byte order
NegativeNameLength(off) ==
  /\ ~buffer.broken /\ Available >= off + 2
  /\ Signed(last.order, Input(off, 2)) < 0

\* C5: readTagName, and ReadTag of an id other than tagEnd, return an
\* error for a negative name length and do not panic.
C5_NegativeNameLength ==
  /\ (Called("readTagName") /\ NegativeNameLength(0)) => Failed
  /\ (Called("ReadTag") /\ NegativeNameLength(1) /\ Input(0, 1)[1] \in tagByte..tagLongArray)
       => Failed

---------------------------------------------------------------------------
(* C6 *)

\* data holds a byte that occurs in no UTF-8 text (0xC0, 0xC1, 0xF5..0xFF)
NotUTF8(data) == \E i \in 1..Len(data) : data[i] \in {192, 193} \cup (245..255)

NameEncodingMsg == "Unable to read tag name: contains non UTF-8 charters"

StringEncodingMsg == "Unable to read tagString payload: contains non UTF-8 charters"

\* a read of the log that got all the bytes of a name or string, which are
\* not UTF-8
BadTextRead(e) ==
  /\ e.by \in TextReads /\ e.got = e.want
  /\ NotUTF8(Slice(buffer.bytes, e.at, e.got))

\* the call read a length of n >= 0, all n bytes are there, and they are
\* not UTF-8
BadText(n) == n >= 0 /\ n <= Available - 2 /\ NotUTF8(Input(2, n))

\* C6: a name or a string whose bytes are all present but are not UTF-8
\* makes readTagName and readTagStringPayload return the encoding error and
\* the empty string, and makes the ReadTag it is read in, at any depth,
\* fail with that error.
C6_UTF8 ==
  /\ (Called("readTagStringPayload") /\ ~buffer.broken /\ Available >= 2
        /\ BadText(Uint(last.order, Input(0, 2))))
       => (Failed /\ last.err = Errorf(StringEncodingMsg, 0) /\ last.val = Payload("string", << >>))
  /\ (Called("readTagName") /\ ~buffer.broken /\ Available >= 2
        /\ BadText(Signed(last.order, Input(0, 2))))
       => (Failed /\ last.err = Errorf(NameEncodingMsg, 0) /\ last.val = << >>)
  /\ (Called("ReadTag") /\ \E i \in 1..Len(buffer.log) : BadTextRead(buffer.log[i]))
       => (Failed /\ last.val = ZeroTag /\ Cause(last.err) \in {NameEncodingMsg, StringEncodingMsg})

\* a string of 0xC0 0xFF whose length is exactly the bytes that are there
C6_Witness ==
  /\ Called("readTagStringPayload") /\ Available = 4
  /\ Uint(last.order, Input(0, 2)) = 2 /\ Input(2, 2) = <<192, 255>>
  /\ Failed /\ last.err = Errorf(StringEncodingMsg, 0)

---------------------------------------------------------------------------
(* C7 *)

\* a read of the call got fewer bytes than it asked for
ShortRead == \E i \in 1..Len(buffer.log) : buffer.log[i].got < buffer.log[i].want

\* C7: a compound payload that is the tagEnd byte alone decodes to no
\* children; a compound payload whose stream ends before its tagEnd fails
\* with an end-of-data error and returns no children.
C7_CompoundTermination ==
  /\ (Called("readTagCompoundPayload") /\ ~buffer.broken /\ Available >= 1
        /\ Input(0, 1) = <<tagEnd>>)
       => (Succeeded /\ last.val = Payload("[]*tag", << >>) /\ Consumed = 1)
  /\ (Called("readTagCompoundPayload") /\ ~buffer.broken /\ ShortRead)
       => (Failed /\ Cause(last.err) \in Incomplete /\ last.val = Payload("[]*tag", << >>))

\* the stream ends after two complete children
C7_Witness ==
  /\ Called("readTagCompoundPayload") /\ Failed
  /\ last.err[1] = Frame("Unable to read tagCompound payload element", 2)
  /\ last.err[3].msg = "Unable to read tag ID"
  /\ Cause(last.err) = "EOF"
  /\ last.val = Payload("[]*tag", << >>)

---------------------------------------------------------------------------
(* C8 *)

RECURSIVE valueOf(_, _)
\* payload p with the pointers in it followed: the children of a compound
\* as tags, whatever their addresses
valueOf(mem, p) ==
  IF p.k = "[]*tag"
    THEN Payload("[]*tag", [i \in 1..Len(p.v) |->
           Tag(mem[p.v[i]].id, mem[p.v[i]].name, valueOf(mem, mem[p.v[i]].payload))])
  ELSE IF p.k = "[]any"
    THEN Payload("[]any", [i \in 1..Len(p.v) |-> valueOf(mem, p.v[i])])
  ELSE p

\* the stream as it was when the call started
Rewound == [Fresh(buffer) EXCEPT !.pos = last.start]

\* tag t, then the tags of rest
tagsAfter(t, rest) == [tags |-> << t >> \o rest.tags, pos |-> rest.pos]

RECURSIVE tagsFrom(_, _)
\* the tags ReadTag returns one after the other from buf, up to the first
\* tagEnd or failure, and where that one ended
tagsNext(r, order) ==
  IF r.panic \/ r.err # NilErr \/ r.val.id = tagEnd
    THEN [tags |-> << >>, pos |-> r.buffer.pos]
    ELSE tagsAfter(Tag(r.val.id, r.val.name, valueOf(r.buffer.mem, r.val.payload)),
                   tagsFrom(r.buffer, order))

tagsFrom(buf, order) == tagsNext(ReadTag(Fresh(buf), order), order)

\* C8: a compound read that succeeds returns the tags read before the
\* first tagEnd, in that order, each entry the address of a variable of
\* its own, none of them a tagEnd, and has consumed the tagEnd.
C8_CompoundChildren ==
  (Called("readTagCompoundPayload") /\ Succeeded)
    => /\ \A i, j \in 1..Len(last.val.v) : i # j => last.val.v[i] # last.val.v[j]
       /\ \A i \in 1..Len(last.val.v) : buffer.mem[last.val.v[i]].id # tagEnd
       /\ valueOf(buffer.mem, last.val).v = tagsFrom(Rewound, last.order).tags
       /\ buffer.pos = tagsFrom(Rewound, last.order).pos

\* two children, the first with a name
C8_Witness ==
  /\ Called("readTagCompoundPayload") /\ Succeeded
  /\ Len(last.val.v) = 2
  /\ buffer.mem[last.val.v[1]].name = <<65>>
  /\ buffer.mem[last.val.v[2]].name = << >>

---------------------------------------------------------------------------
(* C9 *)

\* the first byte the call read is b
FirstByte(b) == ~buffer.broken /\ Available >= 1 /\ Input(0, 1) = <<b>>

\* C9: ReadTag of a stream that starts with 0x00 returns the tag of id 0
\* with no name and no payload, having read that one byte and nothing else.
C9_EndTagOneByte ==
  (Called("ReadTag") /\ FirstByte(tagEnd))
    => /\ Succeeded /\ last.val = ZeroTag
       /\ Consumed = 1
       /\ Len(buffer.log) = 1 /\ buffer.log[1].by = "readTagID"

C9_Witness ==
  /\ Called("ReadTag") /\ FirstByte(tagEnd) /\ Available > 1
  /\ Succeeded /\ Consumed = 1

---------------------------------------------------------------------------
(* C10 *)

\* the first read of the payload reader of tag id
FirstRead(id) ==
  CASE id = tagByte      -> "readTagBytePayload"
    [] id = tagShort     -> "readTagShortPayload"
    [] id = tagInt       -> "readTagIntPayload"
    [] id = tagLong      -> "readTagLongPayload"
    [] id = tagFloat     -> "readTagFloatPayload"
    [] id = tagDouble    -> "readTagDoublePayload"
    [] id = tagByteArray -> "readTagByteArrayPayload size"
    [] id = tagString    -> "readTagStringPayload length"
    [] id = tagList      -> "readTagListPayload type"
    [] id = tagCompound  -> "readTagID"
    [] id = tagIntArray  -> "readTagIntArrayPayload size"
    [] id = tagLongArray -> "readTagLongArrayPayload size"
    [] OTHER -> "none"

NameErrMsgs ==
  {"Unable to read tag name length for", "Unable to read tag name", NameEncodingMsg}

\* C10: ReadTag reads the id, then the name length and the name, then the
\* payload with the reader of the id; an id above 12 fails after that one
\* byte; when the name fails nothing is read after it.
C10_HeaderBeforePayload ==
  Called("ReadTag")
    => /\ Len(buffer.log) >= 1 /\ buffer.log[1].by = "readTagID" /\ buffer.log[1].at = last.start
       /\ Len(buffer.log) >= 2 => buffer.log[2].by = "readTagName length"
       /\ Len(buffer.log) >= 3 => buffer.log[3].by = "readTagName"
       /\ Len(buffer.log) >= 4
            => /\ buffer.log[4].by = FirstRead(Input(0, 1)[1])
               /\ buffer.log[4].at = last.start + 3 + buffer.log[3].want
       /\ (\E b \in 13..255 : FirstByte(b))
            => (Failed /\ Consumed = 1 /\ Len(buffer.log) = 1)
       /\ (Failed /\ Len(last.err) >= 2 /\ last.err[2].msg \in NameErrMsgs)
            => Len(buffer.log) <= 3

\* the name is not UTF-8, and the byte after it is not consumed
C10_Witness ==
  /\ Called("ReadTag") /\ Failed
  /\ last.err[2].msg = NameEncodingMsg
  /\ Consumed < Available
  /\ Len(buffer.log) = 3

---------------------------------------------------------------------------
(* C11 *)

\* the kind of array reader op
KindOf(op) ==
  CASE op = "readTagByteArrayPayload" -> ByteArrayKind
    [] op = "readTagIntArrayPayload" -> IntArrayKind
    [] op = "readTagLongArrayPayload" -> LongArrayKind

\* the size an array reader read: the first 4 bytes in the call's byte order
DeclaredSize == Signed(last.order, Input(0, 4))

\* whole elements of `width` bytes that follow the 4 bytes of the size
ElementsAvailable(width) == (Available - 4) \div width

\* C11: an array reader that reads a size n >= 1 from a stream that ends
\* before n whole elements fails with an end-of-data error that names the
\* first element that was not whole, and returns a nil array, not the
\* elements before it; it has read the stream to its end.
C11_EndOfStreamMidArray ==
  (last.op \in ArrayReaders /\ ~buffer.broken /\ Available >= 4
     /\ DeclaredSize >= 1 /\ ElementsAvailable(KindOf(last.op).width) < DeclaredSize)
    => /\ Failed
       /\ Cause(last.err) \in Incomplete
       /\ last.err[1] = Frame(KindOf(last.op).elemMsg, ElementsAvailable(KindOf(last.op).width))
       /\ last.val = Payload(KindOf(last.op).type, << >>)
       /\ Consumed = Available

\* a byte array of size 8 with 3 bytes there
C11_Witness ==
  /\ Called("readTagByteArrayPayload") /\ ~buffer.broken
  /\ Available = 7 /\ DeclaredSize = 8
  /\ Failed /\ last.err[1] = Frame(ByteArrayKind.elemMsg, 3)
  /\ Cause(last.err) = "EOF"
  /\ last.val.v = << >>

---------------------------------------------------------------------------
(* C12 *)

\* the value of the `width` bytes at offset off of the call, as the wire
\* format defines it: a byte is itself; 4 bytes are a two's complement
\* number whose byte of weight 256^k is the k-th from the end (big-endian)
\* or from the start (little-endian); 8 bytes are kept as bytes, most
\* significant first
Weight(order, width, k) == IF order = "BigEndian" THEN width - k ELSE k + 1

WireByte(off, order, width, k) == Input(off, width)[Weight(order, width, k)]

WireValue(off, order, width) ==
  IF width = 1 THEN WireByte(off, order, 1, 0)
  ELSE IF width = 2
    THEN WireByte(off, order, 2, 0) + 256 * WireByte(off, order, 2, 1)
           - (IF WireByte(off, order, 2, 1) >= 128 THEN 65536 ELSE 0)
  ELSE IF width = 4
    THEN WireByte(off, order, 4, 0) + 256 * WireByte(off, order, 4, 1)
           + 65536 * WireByte(off, order, 4, 2)
           + 16777216 * (WireByte(off, order, 4, 3)
                           - (IF WireByte(off, order, 4, 3) >= 128 THEN 256 ELSE 0))
  ELSE [i \in 1..width |-> WireByte(off, order, width, width - i)]

\* no read of the call went past offset off of where it started
NothingReadPast(off) ==
  \A i \in 1..Len(buffer.log) :
    buffer.log[i].at + buffer.log[i].want <= last.start + off

\* C12: an array reader that reads a size n >= 0 with n whole elements
\* after it returns exactly those n elements, each the value of its bytes
\* in the call's byte order, in the order of the wire, having consumed
\* 4 + n * width bytes and asked for none after them.
C12_ArraySuccess ==
  (last.op \in ArrayReaders /\ ~buffer.broken /\ Available >= 4
     /\ DeclaredSize >= 0 /\ ElementsAvailable(KindOf(last.op).width) >= DeclaredSize)
    => /\ Succeeded
       /\ last.val.k = KindOf(last.op).type
       /\ Len(last.val.v) = DeclaredSize
       /\ \A i \in 1..DeclaredSize :
            last.val.v[i] = WireValue(4 + (i - 1) * KindOf(last.op).width,
                                      last.order, KindOf(last.op).width)
       /\ Consumed = 4 + DeclaredSize * KindOf(last.op).width
       /\ NothingReadPast(4 + DeclaredSize * KindOf(last.op).width)

\* one little-endian int32, negative, with a byte after it that is not read
C12_Witness ==
  /\ Called("readTagIntArrayPayload") /\ last.order = "LittleEndian"
  /\ Available = 9 /\ DeclaredSize = 1
  /\ Succeeded /\ last.val = Payload("[]int32", <<-4>>) /\ Consumed = 8

---------------------------------------------------------------------------
(* C13 *)

\* the call read a list type and a 4-byte length that is n in the call's
\* byte order
LengthRead(n) ==
  /\ ~buffer.broken /\ Available >= 5
  /\ Signed(last.order, Input(1, 4)) = n

\* C13: readTagListPayload of a length of 0 returns a list of no elements
\* and no error whatever the element type byte is, tagEnd and the bytes
\* that are no tag id included, having read the type and the length, 5
\* bytes, and nothing else.
C13_EmptyList ==
  (Called("readTagListPayload") /\ LengthRead(0))
    => /\ Succeeded
       /\ last.val = Payload("[]any", << >>)
       /\ Consumed = 5
       /\ Len(buffer.log) = 2

\* an empty list of element type tagEnd, with a byte after it
C13_Witness ==
  /\ Called("readTagListPayload") /\ LengthRead(0)
  /\ Input(0, 1) = <<tagEnd>> /\ Available > 5
  /\ Succeeded /\ Consumed = 5

---------------------------------------------------------------------------
(* C14 *)

\* the width on the wire of the payload of scalar tag id
Width(id) ==
  CASE id = tagByte -> 1
    [] id = tagShort -> 2
    [] id \in {tagInt, tagFloat} -> 4
    [] id \in {tagLong, tagDouble} -> 8

\* the Go type of the payload of scalar tag id
ScalarType(id) ==
  CASE id = tagByte -> "byte"
    [] id = tagShort -> "int16"
    [] id = tagInt -> "int32"
    [] id = tagLong -> "int64"
    [] id = tagFloat -> "float32"
    [] id = tagDouble -> "float64"

\* the payload of scalar tag id that the bytes at offset off of the call
\* are, as the wire format defines it: a number for a byte, a short and an
\* int, the bytes most significant first for a long and the floats
WireScalar(id, off, order) ==
  Payload(ScalarType(id),
          IF id \in {tagByte, tagShort, tagInt}
            THEN WireValue(off, order, Width(id))
            ELSE [i \in 1..Width(id) |-> WireByte(off, order, Width(id), Width(id) - i)])

\* payload v, then the payloads of rest
payloadsAfter(v, rest) == [ok |-> rest.ok, vals |-> << v >> \o rest.vals, pos |-> rest.pos]

RECURSIVE payloadsFrom(_, _, _, _)
\* the payloads readTagPayload of tag id returns one after the other from
\* buf, n of them: whether all n were there, their values, and where the
\* last one ended
payloadsNext(r, order, id, n) ==
  IF r.panic \/ r.err # NilErr
    THEN [ok |-> FALSE, vals |-> << >>, pos |-> r.buffer.pos]
    ELSE payloadsAfter(valueOf(r.buffer.mem, r.val),
                       payloadsFrom(r.buffer, order, id, n - 1))

payloadsFrom(buf, order, id, n) ==
  IF n = 0 THEN [ok |-> TRUE, vals |-> << >>, pos |-> buf.pos]
  ELSE payloadsNext(readTagPayload(Fresh(buf), order, id), order, id, n)

\* the list the call returned is what ref holds
ListIs(ref) ==
  ref.ok => /\ Succeeded
            /\ last.val.k = "[]any"
            /\ valueOf(buffer.mem, last.val).v = ref.vals
            /\ buffer.pos = ref.pos

\* the element type and the length the call read
ListType == Input(0, 1)[1]

ListLength == Signed(last.order, Input(1, 4))

\* C14: readTagListPayload of an element type in 1..12 and a length n > 0
\* over n well-formed payloads of that type returns those n payloads, in the
\* order of the wire, each what readTagPayload of that type returns from
\* where the one before ended; the payloads lie one after the other from
\* the 6th byte on, with no id and no name between them.
C14_ListElements ==
  (Called("readTagListPayload") /\ ~buffer.broken /\ Available >= 5
     /\ ListType \in tagByte..tagLongArray /\ ListLength > 0)
    => /\ ListIs(payloadsFrom([Rewound EXCEPT !.pos = last.start + 5],
                              last.order, ListType, ListLength))
       /\ Succeeded => Len(last.val.v) = ListLength
       /\ (ListType \in tagByte..tagDouble /\ (Available - 5) \div Width(ListType) >= ListLength)
            => /\ Succeeded
               /\ \A i \in 1..ListLength :
                    last.val.v[i] = WireScalar(ListType, 5 + (i - 1) * Width(ListType), last.order)
               /\ Consumed = 5 + ListLength * Width(ListType)
               /\ Len(buffer.log) = 2 + ListLength
               /\ \A i \in 1..ListLength :
                    /\ buffer.log[2 + i].by = FirstRead(ListType)
                    /\ buffer.log[2 + i].at = last.start + 5 + (i - 1) * Width(ListType)

\* a list of three shorts
C14_Witness ==
  /\ Called("readTagListPayload") /\ ~buffer.broken /\ Available >= 5
  /\ ListType = tagShort /\ ListLength = 3
  /\ Succeeded
  /\ last.val.v = <<Payload("int16", 1), Payload("int16", -2), Payload("int16", 256)>>
  /\ Consumed = 11

---------------------------------------------------------------------------
(* C15 *)

\* the tag the call returned, its compounds holding their children
\* themselves
TreeRead == Tag(last.val.id, last.val.name, valueOf(buffer.mem, last.val.payload))

\* C15: ReadTag of a tag tree as the wire format writes it, in the byte
\* order it was written in, returns that tree and has consumed the bytes
\* of the tree and not the byte after them.
C15_RoundTrip ==
  (Called("ReadTag") /\ last.start = 0 /\ ~buffer.broken)
    => \A e \in Encoded :
         (buffer.bytes = e.bytes /\ last.order = e.order)
           => /\ Succeeded
              /\ TreeRead = TreeOf(e.code)
              /\ Consumed = Len(e.bytes) - 1

\* a little-endian compound of a list and a compound
C15_Witness ==
  /\ Called("ReadTag") /\ last.start = 0 /\ last.order = "LittleEndian"
  /\ Succeeded /\ Consumed = Available - 1
  /\ last.val.id = tagCompound /\ last.val.name = <<110, 195, 169>>
  /\ Len(last.val.payload.v) = 2
  /\ buffer.mem[last.val.payload.v[1]].id = tagList
  /\ buffer.mem[last.val.payload.v[2]].id = tagCompound
  /\ \E e \in Encoded : buffer.bytes = e.bytes /\ last.order = e.order /\ TreeRead = TreeOf(e.code)

---------------------------------------------------------------------------
(* C16 *)

IntegerReaders ==
  {"readTagBytePayload", "readTagShortPayload", "readTagIntPayload", "readTagLongPayload"}

\* C16: the Byte, Short, Int and Long payload readers, given at least 1,
\* 2, 4 and 8 bytes, consume exactly that many in one read and return the
\* number those bytes are in the call's byte order: 0..255 for a byte, two's
\* complement for the others.  The bytes 01 00 are the short 1 in
\* little-endian and 256 in big-endian.
C16_ScalarByteOrder ==
  /\ (last.op \in IntegerReaders /\ ~buffer.broken /\ Available >= Width(last.id))
       => /\ Succeeded
          /\ last.val = WireScalar(last.id, 0, last.order)
          /\ Consumed = Width(last.id)
          /\ Len(buffer.log) = 1 /\ buffer.log[1].want = Width(last.id)
  /\ (Called("readTagBytePayload") /\ Succeeded) => last.val.v \in 0..255
  /\ (Called("readTagShortPayload") /\ Succeeded) => last.val.v \in -32768..32767
  /\ (Called("readTagShortPayload") /\ ~buffer.broken /\ Available >= 2 /\ Input(0, 2) = <<1, 0>>)
       => last.val = Payload("int16", IF last.order = "LittleEndian" THEN 1 ELSE 256)

\* 01 00 read as a big-endian short, with a byte after it
C16_Witness ==
  /\ Called("readTagShortPayload") /\ last.order = "BigEndian"
  /\ Available = 3 /\ Input(0, 2) = <<1, 0>>
  /\ Succeeded /\ last.val = Payload("int16", 256) /\ Consumed = 2

---------------------------------------------------------------------------
(* C17 *)

\* the 2 bytes at the start of the call as an unsigned number in the
\* call's byte order
StringLength == WireByte(0, last.order, 2, 0) + 256 * WireByte(0, last.order, 2, 1)

\* C17: readTagStringPayload takes the 2 bytes of the length for a number
\* in 0..65535 and asks for that many bytes, never panicking; when fewer
\* are left it fails with an end-of-data error and the empty string; when
\* they are all there it consumes exactly them, and returns them as the
\* string, unless they are not UTF-8, the one other way it can fail.
C17_StringLengthUnsigned ==
  (Called("readTagStringPayload") /\ ~buffer.broken /\ Available >= 2)
    => /\ ~last.panic
       /\ Len(buffer.log) = 2 /\ buffer.log[2].want = StringLength
       /\ Available - 2 < StringLength
            => /\ Failed /\ Cause(last.err) \in Incomplete
               /\ last.val = Payload("string", << >>)
               /\ Consumed = Available
       /\ Available - 2 >= StringLength
            => /\ Consumed = 2 + StringLength
               /\ ValidString(Input(2, StringLength)) => Succeeded
               /\ Succeeded => last.val = Payload("string", Input(2, StringLength))
               /\ Failed => last.err = Errorf(StringEncodingMsg, 0)

\* a string of 32768 bytes
C17_Witness ==
  /\ Called("readTagStringPayload") /\ ~buffer.broken /\ Available >= 2
  /\ StringLength = 32768 /\ Input(0, 1) = <<128>>
  /\ Succeeded /\ Len(last.val.v) = 32768 /\ Consumed = 32770 /\ Available = 32771

---------------------------------------------------------------------------
(* C18 *)

SourceFault == "mock broken io.reader"

\* read i of the log did not get the bytes it asked for
Short(i) == buffer.log[i].got < buffer.log[i].want

\* the error binary.Read returns for a read that got `got` bytes, fewer
\* than it asked for, from a source that has ended
EndOfData(got) == IF got = 0 THEN "EOF" ELSE "unexpected EOF"

\* C18: whatever reader is called, a read that does not get its bytes is
\* the last read of the call (nothing is retried, nothing is read after
\* it) and makes the call fail with an error chain that ends in the error
\* of the source: io.EOF or io.ErrUnexpectedEOF when the stream has ended,
\* the fault of the source when the source is faulty, never the one for
\* the other; and no call returns one of these without such a read.
C18_IncompleteDistinguishable ==
  /\ \A i \in 1..Len(buffer.log) : Short(i) => i = Len(buffer.log)
  /\ (ShortRead /\ ~buffer.broken)
       => /\ Failed /\ Len(last.err) >= 2
          /\ Cause(last.err) = EndOfData(buffer.log[Len(buffer.log)].got)
  /\ (ShortRead /\ buffer.broken)
       => /\ Failed /\ Len(last.err) >= 2
          /\ Cause(last.err) = SourceFault
  /\ (Failed /\ Cause(last.err) \in Incomplete) => (ShortRead /\ ~buffer.broken)
  /\ (Failed /\ Cause(last.err) = SourceFault) => (ShortRead /\ buffer.broken)
  /\ SourceFault \notin Incomplete

\* a source that fails in the middle of the second element of an int array
C18_Witness ==
  /\ Called("readTagIntArrayPayload") /\ buffer.broken
  /\ Failed /\ Cause(last.err) = SourceFault
  /\ last.err[1] = Frame(IntArrayKind.elemMsg, 1)
  /\ Len(buffer.log) = 3 /\ buffer.log[3].got \in 1..3

---------------------------------------------------------------------------
(* C19 *)

FloatReaders == {"readTagFloatPayload", "readTagDoublePayload"}

\* C19: the Float and Double payload readers, given at least 4 and 8
\* bytes, succeed whatever the bytes are and return the value whose bits
\* are those bytes in the call's byte order, having consumed exactly them;
\* a NaN keeps the bits it has on the wire.  Little-endian 00 00 C0 7F is a
\* NaN of bits 7FC00000 and 00 00 80 7F is the positive infinity.
C19_FloatBits ==
  /\ (last.op \in FloatReaders /\ ~buffer.broken /\ Available >= Width(last.id))
       => /\ Succeeded
          /\ last.val = WireScalar(last.id, 0, last.order)
          /\ Consumed = Width(last.id)
          /\ Len(buffer.log) = 1
  /\ (Called("readTagFloatPayload") /\ ~buffer.broken /\ Available >= 4
        /\ last.order = "LittleEndian")
       => /\ Input(0, 4) = <<0, 0, 192, 127>>
               => (last.val.v = <<127, 192, 0, 0>> /\ IsNaN32(last.val.v))
          /\ Input(0, 4) = <<0, 0, 128, 127>>
               => (last.val.v = <<127, 128, 0, 0>> /\ IsInf32(last.val.v, 0))

\* a little-endian signalling NaN, with a byte after it
C19_Witness ==
  /\ Called("readTagFloatPayload") /\ last.order = "LittleEndian"
  /\ Available = 5 /\ Input(0, 4) = <<1, 0, 160, 127>>
  /\ Succeeded /\ IsNaN32(last.val.v) /\ last.val.v = <<127, 160, 0, 1>>
  /\ Consumed = 4

---------------------------------------------------------------------------
(* C20 *)

\* the names of the tag ids 0..12
TypeNames ==
  << "tagEnd", "tagByte", "tagShort", "tagInt", "tagLong", "tagFloat", "tagDouble",
     "tagByteArray", "tagString", "tagList", "tagCompound", "tagIntArray", "tagLongArray" >>

\* C20: tagType of a tag of id 0..12 returns the name of that id, "tagEnd"
\* to "tagLongArray", 13 names all different, and a nil error; of a tag of
\* id 13..255 it returns the empty name and an error that names the id.
C20_TagType ==
  /\ Cardinality({ TypeNames[i] : i \in 1..Len(TypeNames) }) = 13
  /\ (Called("tagType") /\ last.id \in tagEnd..tagLongArray)
       => (Succeeded /\ last.val = TypeNames[last.id + 1])
  /\ (Called("tagType") /\ last.id \in 13..255)
       => /\ Failed /\ last.val = ""
          /\ last.err = Errorf("tag ID not between 0 (tagEnd) and 12 (tagLongArray)", last.id)

C20_Witness ==
  /\ Called("tagType") /\ last.id = tagLongArray
  /\ Succeeded /\ last.val = "tagLongArray"

---------------------------------------------------------------------------
(* C21 *)

\* the frame the reader of the payload put on the error: the first one, or
\* the second when ReadTag put its own before it
OwnFrame == IF Called("ReadTag") THEN last.err[2] ELSE last.err[1]

\* where the payload the call read starts: where the call started, or after
\* the id, the name length and the name when the call is ReadTag
PayloadAt == IF Called("ReadTag") THEN last.start + 3 + buffer.log[3].want ELSE last.start

\* the call is reader op, or ReadTag of a tag of this id whose name was read
Reads(op, id) ==
  \/ Called(op)
  \/ /\ Called("ReadTag") /\ Len(buffer.log) >= 4
     /\ Input(0, 1) = <<id>> /\ buffer.log[3].got = buffer.log[3].want

\* reads of the log by reader `by` that got all the bytes they asked for
WholeReads(by) ==
  Cardinality({ i \in 1..Len(buffer.log) :
                  buffer.log[i].by = by /\ buffer.log[i].got = buffer.log[i].want })

ArrayKinds == {ByteArrayKind, IntArrayKind, LongArrayKind}

\* the list the payload holds: its element type, its length, and the
\* payloads readTagPayload returns one after the other from its 6th byte
ListRef ==
  payloadsFrom([Rewound EXCEPT !.pos = PayloadAt + 5], last.order,
               buffer.bytes[PayloadAt + 1],
               Signed(last.order, Slice(buffer.bytes, PayloadAt + 1, 4)))

\* the children ReadTag returns one after the other from where the
\* payload starts
CompoundRef == tagsFrom([Rewound EXCEPT !.pos = PayloadAt], last.order)

---------------------------------------------------------------------------
(* C22 *)

\* ReadTag read the id and a name of n bytes, and its payload reader failed
PayloadFailed ==
  /\ Called("ReadTag") /\ Failed
  /\ Len(buffer.log) >= 4 /\ buffer.log[3].got = buffer.log[3].want

\* the name ReadTag read
NameRead == Input(3, buffer.log[3].want)

\* the stream of the call with every byte of the name changed to another
\* letter
Renamed ==
  [Rewound EXCEPT !.bytes =
     [i \in 1..Len(buffer.bytes) |->
        IF i > last.start + 3 /\ i <= last.start + 3 + buffer.log[3].want
          THEN (IF buffer.bytes[i] = 66 THEN 67 ELSE 66)
          ELSE buffer.bytes[i]]]

\* the stream of the call with a byte put before it: the tag lies one byte
\* further on
Shifted ==
  [Rewound EXCEPT !.bytes = <<0>> \o buffer.bytes, !.pos = last.start + 1]

\* the first frame the payload reader of tag id puts on an error
PayloadMsgs(id) ==
  CASE id = tagByte      -> {"Unable to read tagByte payload"}
    [] id = tagShort     -> {"Unable to read tagShort payload"}
    [] id = tagInt       -> {"Unable to read tagInt payload"}
    [] id = tagLong      -> {"Unable to read tagLong payload"}
    [] id = tagFloat     -> {"Unable to read tagFloat payload"}
    [] id = tagDouble    -> {"Unable to read tagDouble payload"}
    [] id = tagByteArray -> {ByteArrayKind.sizeMsg, ByteArrayKind.negMsg, ByteArrayKind.elemMsg}
    [] id = tagString    -> {"Unable to read tagString payload length",
                             "Unable to read tagString payload", StringEncodingMsg}
    [] id = tagList      -> {"Unable to read tagList type", "Unable to read tagList length",
                             "Unable to read tagList payload element"}
    [] id = tagCompound  -> {"Unable to read tagCompound payload element"}
    [] id = tagIntArray  -> {IntArrayKind.sizeMsg, IntArrayKind.negMsg, IntArrayKind.elemMsg}
    [] id = tagLongArray -> {LongArrayKind.sizeMsg, LongArrayKind.negMsg, LongArrayKind.elemMsg}

\* C22 as claimed: the error of a payload that fails inside ReadTag tells
\* which tag failed by its name or its position: it is not the error of the
\* same tag under another name, or not that of the same tag one byte
\* further on in the stream.
C22_Claimed ==
  (PayloadFailed /\ Len(NameRead) >= 1)
    => \/ ReadTag(Renamed, last.order).err # last.err
       \/ ReadTag(Shifted, last.order).err # last.err

\* C22: the error ReadTag returns when the payload fails is the error of
\* the payload reader, whole, under the one frame "Unable to read tag",
\* which holds neither the name nor the position of the tag: the error is
\* that of the same tag under any other name and anywhere else in the
\* stream.  What it tells of the tag is its type, in the frame of the
\* payload reader.
C22_TagContext ==
  PayloadFailed
    => /\ last.err[1] = Frame("Unable to read tag", 0)
       /\ Len(last.err) >= 2
       /\ last.err[2].msg \in PayloadMsgs(Input(0, 1)[1])
       /\ Tail(last.err)
            = readTagPayload([Rewound EXCEPT !.pos = PayloadAt], last.order, Input(0, 1)[1]).err
       /\ ReadTag(Renamed, last.order).err = last.err
       /\ ReadTag(Shifted, last.order).err = last.err

\* a list of shorts named "né" that ends in its second element
C22_Witness ==
  /\ PayloadFailed /\ NameRead = <<110, 195, 169>>
  /\ last.err = << Frame("Unable to read tag", 0),
                   Frame("Unable to read tagList payload element", 1),
                   Frame("Unable to read tagShort payload", 0),
                   Frame("unexpected EOF", 0) >>

---------------------------------------------------------------------------
(* C23 *)

\* read i of the log took bytes from the stream
Took(i) == buffer.log[i].got >= 1

\* the stream that holds the n bytes from where the call started, and no
\* others
Cut(n) == [Rewound EXCEPT !.bytes = Slice(buffer.bytes, last.start, n), !.pos = 0]

\* what ReadTag returns from stream buf is what the call returned, and it
\* has consumed as many bytes
SameAsOn(buf) ==
  /\ ReadTag(buf, last.order).val = last.val
  /\ ReadTag(buf, last.order).err = last.err
  /\ ReadTag(buf, last.order).panic = last.panic
  /\ ReadTag(buf, last.order).buffer.pos = Consumed
  /\ ReadTag(buf, last.order).buffer.mem = buffer.mem

\* C23: the reads of a ReadTag call start where the call started, each
\* where the one before ended, so the reads that take bytes are at strictly
\* increasing offsets and no byte is read twice or skipped; the cursor is
\* left where the last read ended.  When the call succeeds no read has
\* asked for a byte beyond the cursor, and the bytes consumed are the tag:
\* they alone decode to the same tag, and without the last of them they do
\* not.  A ReadTag that starts where an earlier one ended returns what it
\* would return from the rest of the stream alone.
C23_WireOrder ==
  Called("ReadTag")
    => /\ Len(buffer.log) >= 1 /\ buffer.log[1].at = last.start
       /\ \A i \in 1..Len(buffer.log) - 1 :
            buffer.log[i + 1].at = buffer.log[i].at + buffer.log[i].got
       /\ \A i, j \in 1..Len(buffer.log) :
            (i < j /\ Took(i) /\ Took(j)) => buffer.log[i].at < buffer.log[j].at
       /\ buffer.pos = buffer.log[Len(buffer.log)].at + buffer.log[Len(buffer.log)].got
       /\ Succeeded
            => /\ NothingReadPast(Consumed)
               /\ Consumed >= 1
               /\ SameAsOn(Cut(Consumed))
               /\ ReadTag(Cut(Consumed - 1), last.order).err # NilErr
       /\ SameAsOn(Cut(Available))

\* the third tag of a stream, a compound, read after a short and a list
C23_Witness ==
  /\ Called("ReadTag") /\ Succeeded
  /\ buffer.bytes = TagsInARow(last.order)
  /\ last.start = 16 /\ last.val.id = tagCompound /\ last.val.name = <<66>>
  /\ Consumed = 10 /\ buffer.pos < Len(buffer.bytes)

---------------------------------------------------------------------------
(* C24 *)

\* what ReadTag returns from the stream of invocation w when it runs alone
Alone(w) ==
  ReadTag([buffer[w].buffer EXCEPT !.pos = 0, !.log = << >>, !.mem = << >>], last[w].order)

\* invocation w has ended as it ends alone: the same tag or error, or the
\* same panic, the same reads, the cursor and the tags allocated the same
EndedAsAlone(w) ==
  /\ buffer[w].panic = Alone(w).panic
  /\ buffer[w].buffer = Alone(w).buffer
  /\ ~buffer[w].panic => (buffer[w].val = Alone(w).val /\ buffer[w].err = Alone(w).err)

\* the invocations that return do so as they do alone, however their reads
\* interleave
ReturnsAsAlone == \A w \in Workers : buffer[w].done => EndedAsAlone(w)

\* C24: of two invocations of ReadTag on two streams, each ends as it ends
\* alone however their reads interleave: what it returns and its stream are
\* those of the invocation alone, and an invocation that has not returned
\* goes on to, whatever the other has done.
C24_Independent ==
  /\ ReturnsAsAlone
  /\ \A w \in Workers : ~buffer[w].done => ~Crashed

---------------------------------------------------------------------------
(* C25 *)

\* the error of readTagPayload for an id that is no tag id
NoReaderErr(id) == Errorf("tag ID not between 0 (tagEnd) and 12 (tagLongArray)", id)

\* the call read an element type that is no tag id, and a length
BadElementType ==
  /\ Called("readTagListPayload") /\ ~buffer.broken /\ Available >= 5
  /\ ListType \in 13..255

\* C25 as claimed: a list whose element type is in 13..255 fails with the
\* invalid-id error whatever its length is.
C25_Claimed ==
  BadElementType => (Failed /\ last.err[Len(last.err)] = Frame(NoReaderErr(ListType)[1].msg, ListType))

\* C25: readTagListPayload does not test the element type.  A list whose
\* element type is in 13..255 fails only when its length is positive: the
\* first call of readTagPayload returns the invalid-id error that names the
\* type, as element 0, the 5 bytes of type and length having been consumed
\* and no more.  With a length of 0 or a negative length the list is read
\* as the empty list.
C25_ListElementType ==
  BadElementType
    => /\ ListLength > 0
            => /\ Failed
               /\ last.err = Wrap("Unable to read tagList payload element", 0, NoReaderErr(ListType))
               /\ last.val = Payload("[]any", << >>)
       /\ ListLength <= 0
            => (Succeeded /\ last.val = Payload("[]any", << >>))
       /\ Consumed = 5 /\ Len(buffer.log) = 2

\* a list of two elements of type 13
C25_Witness ==
  /\ BadElementType /\ ListType = 13 /\ ListLength = 2 /\ Available = 7
  /\ Failed /\ last.err[2] = Frame("tag ID not between 0 (tagEnd) and 12 (tagLongArray)", 13)
  /\ Consumed = 5

---------------------------------------------------------------------------
(* C26 *)

\* the error of readTagPayload for tagEnd
EndPayloadErr == Errorf("Not expecting to read a tagEnd in the payload", 0)

\* C26: readTagPayload of id 0 returns its error and a nil payload and does
\* no read, whatever the stream holds and whether or not the source is
\* faulty.  So a list of element type tagEnd and of a length above 0, read
\* alone or as the payload of a tag, fails at element 0 with that error,
\* the type and the length having been read and nothing after them, and is
\* no list of elements without a payload.
C26_EndPayload ==
  /\ (Called("readTagPayload") /\ last.id = tagEnd)
       => /\ Failed /\ last.err = EndPayloadErr /\ last.val = NilPayload
          /\ Consumed = 0 /\ buffer.log = << >>
  /\ (Called("readTagListPayload") /\ ~buffer.broken /\ Available >= 5
        /\ ListType = tagEnd /\ ListLength > 0)
       => /\ Failed
          /\ last.err = Wrap("Unable to read tagList payload element", 0, EndPayloadErr)
          /\ last.val = Payload("[]any", << >>)
          /\ Consumed = 5 /\ Len(buffer.log) = 2
  /\ (Reads("readTagListPayload", tagList) /\ Called("ReadTag")
        /\ WholeReads("readTagListPayload length") >= 1
        /\ buffer.bytes[PayloadAt + 1] = tagEnd
        /\ Signed(last.order, Slice(buffer.bytes, PayloadAt + 1, 4)) > 0)
       => /\ Failed
          /\ Tail(last.err) = Wrap("Unable to read tagList payload element", 0, EndPayloadErr)
          /\ buffer.pos = PayloadAt + 5

\* a list of one tagEnd, with a byte after the length
C26_Witness ==
  /\ Called("readTagListPayload") /\ ~buffer.broken /\ Available = 6
  /\ ListType = tagEnd /\ ListLength = 1
  /\ Failed /\ last.err[1] = Frame("Unable to read tagList payload element", 0)
  /\ Consumed = 5

---------------------------------------------------------------------------
(* C27 *)

EncodingMsgs == {NameEncodingMsg, StringEncodingMsg}

\* the length the call read in its first 2 bytes: an int16 for a name, a
\* uint16 for a string
TextLength ==
  IF Called("readTagName") THEN Signed(last.order, Input(0, 2)) ELSE StringLength

\* the error of a read that did not get its bytes: that of the source when
\* it is faulty, else end of data
ShortReadCauses == IF buffer.broken THEN {SourceFault} ELSE Incomplete

\* C27: readTagName and readTagStringPayload, having read a length n >= 0,
\* look at the bytes only when all n came.  When fewer than n bytes are
\* left the call fails with the error of the read (end of data, or the
\* fault of the source), also when the bytes that are left are not UTF-8,
\* and has consumed what was left.  When the call fails with the encoding
\* error, the read of the bytes got all n and exactly 2 + n bytes were
\* consumed.
C27_TruncationFirst ==
  (last.op \in TextReads /\ Available >= 2 /\ TextLength >= 0)
    => /\ Available - 2 < TextLength
            => /\ Failed
               /\ Cause(last.err) \in ShortReadCauses
               /\ Cause(last.err) \notin EncodingMsgs
               /\ Consumed = Available
       /\ (Failed /\ Cause(last.err) \in EncodingMsgs)
            => /\ Len(buffer.log) = 2
               /\ buffer.log[2].got = TextLength /\ buffer.log[2].want = TextLength
               /\ Consumed = 2 + TextLength
               /\ ~ValidString(Input(2, TextLength))

\* a string of length 4 of which 3 bytes are there, two of them not UTF-8
C27_Witness ==
  /\ Called("readTagStringPayload") /\ ~buffer.broken /\ Available = 5
  /\ TextLength = 4 /\ NotUTF8(Input(2, 3))
  /\ Failed /\ Cause(last.err) = "unexpected EOF"
  /\ last.err[1].msg = "Unable to read tagString payload"

---------------------------------------------------------------------------
(* C28 *)

Int16 == -32768..32767

Bytes(b, n) == Len(b) = n /\ \A i \in 1..n : b[i] \in Uint8

\* v is an int32
IsInt32(v) == v >= -2147483647 - 1 /\ v <= 2147483647

RECURSIVE ShapeOK(_, _, _)
RECURSIVE TagOK(_, _)
\* payload p has the shape fixed for tag id: a number of the width of the
\* id, the bits of a float, an array of such numbers, a string of UTF-8, a
\* list of payloads all of the shape of one id, or a sequence of pointers
\* to tags that have their shape and are no tagEnd
ShapeOK(mem, id, p) ==
  CASE id = tagByte      -> p.k = "byte" /\ p.v \in Uint8
    [] id = tagShort     -> p.k = "int16" /\ p.v \in Int16
    [] id = tagInt       -> p.k = "int32" /\ IsInt32(p.v)
    [] id = tagLong      -> p.k = "int64" /\ Bytes(p.v, 8)
    [] id = tagFloat     -> p.k = "float32" /\ Bytes(p.v, 4)
    [] id = tagDouble    -> p.k = "float64" /\ Bytes(p.v, 8)
    [] id = tagByteArray -> p.k = "[]byte" /\ \A i \in 1..Len(p.v) : p.v[i] \in Uint8
    [] id = tagString    -> p.k = "string" /\ Len(p.v) <= 65535 /\ ValidString(p.v)
    [] id = tagList      ->
         /\ p.k = "[]any"
         /\ \A i \in 1..Len(p.v) :
              /\ p.v[i].k = p.v[1].k
              /\ p.v[i].k # "nil"
              /\ ShapeOK(mem, IdOfKind(p.v[i].k), p.v[i])
    [] id = tagCompound  ->
         /\ p.k = "[]*tag"
         /\ \A i \in 1..Len(p.v) :
              /\ p.v[i] \in 1..Len(mem)
              /\ mem[p.v[i]].id # tagEnd
              /\ TagOK(mem, mem[p.v[i]])
    [] id = tagIntArray  -> p.k = "[]int32" /\ \A i \in 1..Len(p.v) : IsInt32(p.v[i])
    [] id = tagLongArray -> p.k = "[]int64" /\ \A i \in 1..Len(p.v) : Bytes(p.v[i], 8)
    [] OTHER -> FALSE

\* tag t has an id in 0..12 and the shape of it: a tagEnd has no name and
\* no payload, any other tag the payload of its id
TagOK(mem, t) ==
  /\ t.id \in tagEnd..tagLongArray
  /\ t.id = tagEnd => (t.name = << >> /\ t.payload = NilPayload)
  /\ t.id # tagEnd => (Len(t.name) <= 32767 /\ ShapeOK(mem, t.id, t.payload))

PayloadReaders ==
  { "readTagBytePayload", "readTagShortPayload", "readTagIntPayload", "readTagLongPayload",
    "readTagFloatPayload", "readTagDoublePayload", "readTagByteArrayPayload",
    "readTagStringPayload", "readTagListPayload", "readTagCompoundPayload",
    "readTagIntArrayPayload", "readTagLongArrayPayload", "readTagPayload" }

\* C28: the tag a ReadTag that succeeds returns has an id in 0..12 and a
\* payload of the shape of that id, and so has every tag a compound in it
\* points to, at any depth, none of which is a tagEnd; a tag of id 0 has
\* the empty name and the nil payload; the elements of a list are all of
\* one type.  The payload readers return the shape of their id.
C28_ResultShape ==
  /\ (Called("ReadTag") /\ Succeeded) => TagOK(buffer.mem, last.val)
  /\ (last.op \in PayloadReaders /\ Succeeded) => ShapeOK(buffer.mem, last.id, last.val)

\* a compound of a list of one compound and of a string
C28_Witness ==
  /\ Called("readTagCompoundPayload") /\ Succeeded
  /\ Len(last.val.v) = 2
  /\ buffer.mem[last.val.v[1]].id = tagList
  /\ buffer.mem[last.val.v[1]].payload.v[1].k = "[]*tag"
  /\ Len(buffer.mem[last.val.v[1]].payload.v[1].v) = 1
  /\ buffer.mem[last.val.v[2]].id = tagString
  /\ ShapeOK(buffer.mem, tagCompound, last.val)

---------------------------------------------------------------------------
(* C29 *)

\* reads of the call that asked for no byte: an empty name, an empty string
EmptyReads == Cardinality({ i \in 1..Len(buffer.log) : buffer.log[i].want = 0 })

\* the reads the loops of the array, list and compound readers do, one or
\* more in every iteration: an element of an array, the first read of the
\* payload of a list element, the id of a child
LoopReads ==
  { "readTagByteArrayPayload", "readTagIntArrayPayload", "readTagLongArrayPayload", "readTagID" }

\* every read of the call either took a byte, or asked for none after a
\* length of 0 was read in the 2 bytes before it, or was the last read of
\* the call and made it fail; so there are no more reads, and no more
\* iterations of the loops, than bytes in the stream and one, and empty
\* names and strings
Progress ==
  /\ \A i \in 1..Len(buffer.log) :
       \/ Took(i)
       \/ /\ buffer.log[i].want = 0 /\ i >= 2
          /\ buffer.log[i - 1].got = 2 /\ buffer.log[i].by \in TextReads
       \/ i = Len(buffer.log) /\ Failed
  /\ \A i \in 1..Len(buffer.log) : buffer.log[i].by \in LoopReads => buffer.log[i].want >= 1
  /\ Len(buffer.log) <= Consumed + EmptyReads + 1
  /\ 2 * EmptyReads <= Consumed
  /\ Consumed <= Available

\* C29: ReadTag returns from every stream, a tag or an error; every read of
\* its loops takes at least one byte or ends the call with an error, so
\* the reads and the iterations are bounded by the length of the stream
\* whatever sizes and lengths the stream declares.
C29_Termination ==
  Called("ReadTag") => ((Succeeded \/ Failed) /\ Progress)

---------------------------------------------------------------------------
(* C30 *)

\* the names of the children a compound payload points to, in wire order
ChildNames(mem, p) == [ i \in 1..Len(p.v) |-> mem[p.v[i]].name ]

\* no two places of a sequence hold the same value
Distinct(s) == \A i, j \in 1..Len(s) : s[i] = s[j] => i = j

\* C30: the children of the payload a successful readTagCompoundPayload
\* returns have names that differ from one another.
C30_UniqueChildNames ==
  (Called("readTagCompoundPayload") /\ Succeeded)
    => Distinct(ChildNames(buffer.mem, last.val))

====
